---- MODULE Spec2Model ----
(***************************************************************************)
(* clinfo: enumerate the OpenCL platforms and devices of a machine and     *)
(* print their properties.  Three program variants are modelled:           *)
(*   "cpp" : src/main.cpp (class CLinfo) and src/unnamed/part_000 (class   *)
(*           CL_info), which have the same control flow;                   *)
(*   "c"   : src/clinfo.c.                                                 *)
(* The OpenCL runtime is the environment: every answer it gives is an      *)
(* input, chosen nondeterministically from small sets.                     *)
(***************************************************************************)
EXTENDS Integers, Sequences, FiniteSets, TLC

VARIABLES
  variant,             \* which program is running: "cpp" or "c"
  dump_image_formats,  \* CLinfo::dump_image_formats (always TRUE in "c")
  pc,                  \* position of the single control thread
  exit_status,         \* NotExited while running, then the process status
  num_platforms,       \* display(): num_platforms / main(): number_of_platforms
  pi,                  \* display(): ii, the platform index
  num_devices,         \* print_platform(): num_devices
  di,                  \* print_platform(): ii, the device index
  out,                 \* everything written to stdout, in order
  err,                 \* everything written to stderr, in order
  calls,               \* every runtime call issued, in order
  contexts,            \* contexts created by clCreateContext and not released
  buffers,             \* image-format arrays allocated and not freed
  budget,              \* how many non-default runtime answers remain
  fn_in,               \* argument of the pure function under check
  fn_out,              \* its result
  args                 \* the command-line arguments not scanned yet

vars == <<variant, dump_image_formats, pc, exit_status, num_platforms, pi,
          num_devices, di, out, err, calls, contexts, buffers, budget,
          fn_in, fn_out, args>>

run_vars == <<variant, dump_image_formats, exit_status, num_platforms, pi,
              num_devices, di, out, err, calls, contexts, buffers, budget, args>>

NotExited == 0 - 1

None == <<>>

(***************************************************************************)
(* Unsigned 64-bit values (uint64_t) are four 16-bit limbs, least          *)
(* significant first, so that the full width is kept.                      *)
(***************************************************************************)
LimbBase == 2 ^ 16

U64(a, b, c, d) == <<a, b, c, d>>

U64Zero == U64(0, 0, 0, 0)

\* val % 1000 and val / 1000 on uint64_t, by long division from the top limb.
DivMod1000(v) ==
  LET t4 == v[4]
      t3 == (t4 % 1000) * LimbBase + v[3]
      t2 == (t3 % 1000) * LimbBase + v[2]
      t1 == (t2 % 1000) * LimbBase + v[1]
  IN  [quot |-> U64(t1 \div 1000, t2 \div 1000, t3 \div 1000, t4 \div 1000),
       rem  |-> t1 % 1000]

\* val > 999 on uint64_t
GreaterThan999(v) == v[4] # 0 \/ v[3] # 0 \/ v[2] # 0 \/ v[1] > 999

Digit(d) == <<"0", "1", "2", "3", "4", "5", "6", "7", "8", "9">>[d + 1]

\* std::to_string of a value below 1000: decimal digits, no padding.
to_string(n) ==
  IF n < 10 THEN <<Digit(n)>>
  ELSE IF n < 100 THEN <<Digit(n \div 10), Digit(n % 10)>>
  ELSE <<Digit(n \div 100), Digit((n \div 10) % 10), Digit(n % 10)>>

(***************************************************************************)
(* format_long: the loop of src/main.cpp:144-154.                          *)
(***************************************************************************)
RECURSIVE format_long_loop(_, _)
format_long_loop(val, r) ==
  IF GreaterThan999(val)
  THEN LET x  == DivMod1000(val).rem
           v2 == DivMod1000(val).quot
           padded == IF x < 100
                     THEN (IF x < 10 THEN <<"0", "0">> \o r ELSE <<"0">> \o r)
                     ELSE r
       IN  format_long_loop(v2, to_string(DivMod1000(v2).rem) \o <<",">> \o padded)
  ELSE r

\* The same loop with the one-digit group padded by a single zero.
format_long_short_pad(val) ==
  LET RECURSIVE loop(_, _)
      loop(v, r) ==
        IF GreaterThan999(v)
        THEN LET x  == DivMod1000(v).rem
                 v2 == DivMod1000(v).quot
                 padded == IF x < 100 THEN <<"0">> \o r ELSE r
             IN  loop(v2, to_string(DivMod1000(v2).rem) \o <<",">> \o padded)
        ELSE r
  IN  loop(val, to_string(DivMod1000(val).rem))

format_long(val) == format_long_loop(val, to_string(DivMod1000(val).rem))

(***************************************************************************)
(* cl_strerror / cl_error_str: the status codes of CL/cl.h and the table   *)
(* scan of src/main.cpp:115-142.                                           *)
(***************************************************************************)
CL_SUCCESS == 0
CL_DEVICE_NOT_FOUND == -1
CL_DEVICE_NOT_AVAILABLE == -2
CL_COMPILER_NOT_AVAILABLE == -3
CL_MEM_OBJECT_ALLOCATION_FAILURE == -4
CL_OUT_OF_RESOURCES == -5
CL_OUT_OF_HOST_MEMORY == -6
CL_PROFILING_INFO_NOT_AVAILABLE == -7
CL_MEM_COPY_OVERLAP == -8
CL_IMAGE_FORMAT_MISMATCH == -9
CL_IMAGE_FORMAT_NOT_SUPPORTED == -10
CL_BUILD_PROGRAM_FAILURE == -11
CL_MAP_FAILURE == -12
CL_INVALID_VALUE == -30
CL_INVALID_DEVICE_TYPE == -31

NULL == "<NULL>"

error_table == <<
  [code |-> CL_SUCCESS,                       msg |-> "no error"],
  [code |-> CL_DEVICE_NOT_FOUND,              msg |-> "device not found"],
  [code |-> CL_DEVICE_NOT_AVAILABLE,          msg |-> "device not available"],
  [code |-> CL_COMPILER_NOT_AVAILABLE,        msg |-> "compiler not available"],
  [code |-> CL_MEM_OBJECT_ALLOCATION_FAILURE, msg |-> "mem object allocation failure"],
  [code |-> CL_OUT_OF_RESOURCES,              msg |-> "out of resources"],
  [code |-> CL_OUT_OF_HOST_MEMORY,            msg |-> "out of host memory"],
  [code |-> CL_PROFILING_INFO_NOT_AVAILABLE,  msg |-> "profiling not available"],
  [code |-> CL_MEM_COPY_OVERLAP,              msg |-> "memcopy overlaps"],
  [code |-> CL_IMAGE_FORMAT_MISMATCH,         msg |-> "image format mismatch"],
  [code |-> CL_IMAGE_FORMAT_NOT_SUPPORTED,    msg |-> "image format not supported"],
  [code |-> CL_BUILD_PROGRAM_FAILURE,         msg |-> "build program failed"],
  [code |-> CL_MAP_FAILURE,                   msg |-> "map failed"],
  [code |-> CL_INVALID_VALUE,                 msg |-> "invalid value"],
  [code |-> CL_INVALID_DEVICE_TYPE,           msg |-> "invalid device type"],
  [code |-> 0,                                msg |-> NULL] >>

\* sizeof unknown
UnknownSize == 25

\* The characters "%d" prints for a cl_int (32-bit, two's complement).
RECURSIVE DecimalDigits(_)
DecimalDigits(n) ==
  \* n >= 0
  IF n < 10 THEN <<Digit(n)>> ELSE DecimalDigits(n \div 10) \o <<Digit(n % 10)>>

DecimalOf(n) ==
  IF n >= 0 THEN DecimalDigits(n)
  ELSE LET last == (10 - (n % 10)) % 10
           rest == 0 - ((n + last) \div 10)
       IN  <<"-">> \o (IF rest = 0 THEN <<>> ELSE DecimalDigits(rest)) \o <<Digit(last)>>

Take(s, n) == IF Len(s) <= n THEN s ELSE SubSeq(s, 1, n)

\* strlen("unknown error ")
UnknownPrefixLen == 14

\* snprintf(unknown, sizeof unknown, "unknown error %d", error): at most
\* sizeof unknown - 1 characters are stored.
unknown_text(error) ==
  [msg |-> "unknown error ",
   num |-> Take(DecimalOf(error), UnknownSize - 1 - UnknownPrefixLen)]

RECURSIVE cl_strerror_scan(_, _)
cl_strerror_scan(error, ii) ==
  IF error_table[ii].msg # NULL
  THEN IF error_table[ii].code = error
       THEN [msg |-> error_table[ii].msg, num |-> <<>>]
       ELSE cl_strerror_scan(error, ii + 1)
  ELSE unknown_text(error)

\* The scan started one entry late: the first table entry is never matched.
cl_strerror_skip_first(error) == cl_strerror_scan(error, 2)

cl_strerror(error) == cl_strerror_scan(error, 1)

(***************************************************************************)
(* Property tables.  Each is an array ended by a {0, NULL} entry and is    *)
(* walked until the NULL name.                                             *)
(***************************************************************************)
LONG_PROPS == <<
  "VENDOR_ID", "MAX_COMPUTE_UNITS", "MAX_WORK_ITEM_DIMENSIONS",
  "MAX_WORK_GROUP_SIZE", "PREFERRED_VECTOR_WIDTH_CHAR",
  "PREFERRED_VECTOR_WIDTH_SHORT", "PREFERRED_VECTOR_WIDTH_INT",
  "PREFERRED_VECTOR_WIDTH_LONG", "PREFERRED_VECTOR_WIDTH_FLOAT",
  "PREFERRED_VECTOR_WIDTH_DOUBLE", "MAX_CLOCK_FREQUENCY", "ADDRESS_BITS",
  "MAX_MEM_ALLOC_SIZE", "IMAGE_SUPPORT", "MAX_READ_IMAGE_ARGS",
  "MAX_WRITE_IMAGE_ARGS", "IMAGE2D_MAX_WIDTH", "IMAGE2D_MAX_HEIGHT",
  "IMAGE3D_MAX_WIDTH", "IMAGE3D_MAX_HEIGHT", "IMAGE3D_MAX_DEPTH",
  "MAX_SAMPLERS", "MAX_PARAMETER_SIZE", "MEM_BASE_ADDR_ALIGN",
  "MIN_DATA_TYPE_ALIGN_SIZE", "GLOBAL_MEM_CACHELINE_SIZE",
  "GLOBAL_MEM_CACHE_SIZE", "GLOBAL_MEM_SIZE", "MAX_CONSTANT_BUFFER_SIZE",
  "MAX_CONSTANT_ARGS", "LOCAL_MEM_SIZE", "ERROR_CORRECTION_SUPPORT",
  "PROFILING_TIMER_RESOLUTION", "ENDIAN_LITTLE", "AVAILABLE",
  "COMPILER_AVAILABLE" >>

HEX_PROPS == << "SINGLE_FP_CONFIG", "QUEUE_PROPERTIES" >>

longProps == LONG_PROPS \o <<NULL>>

hexProps == HEX_PROPS \o <<NULL>>

\* strProps of print_device: the two programs order the last two differently.
strProps(v) ==
  IF v = "cpp"
  THEN <<"NAME", "VENDOR", "PROFILE", "VERSION", "DRIVER_VERSION", "EXTENSIONS", NULL>>
  ELSE <<"NAME", "VENDOR", "PROFILE", "VERSION", "EXTENSIONS", "DRIVER_VERSION", NULL>>

\* props of print_platform
props(v) ==
  IF v = "cpp"
  THEN <<"name", "vendor", "profile", "version", "extensions", NULL>>
  ELSE <<"profile", "version", "name", "vendor", "extensions", NULL>>

\* sizeof buf
BufSize == 65536

\* sizeof val
ValSize == 8

\* sizeof work_item_sizes: three size_t
WorkItemSizesSize == 24

CL_DEVICE_TYPE_DEFAULT == 1
CL_DEVICE_TYPE_CPU == 2
CL_DEVICE_TYPE_GPU == 4
CL_DEVICE_TYPE_ACCELERATOR == 8
CL_EXEC_KERNEL == 1
CL_EXEC_NATIVE_KERNEL == 2

(***************************************************************************)
(* The runtime.  A plan is the set of queries of one pass that the runtime *)
(* answers in a non-default way; every other query gets the default        *)
(* answer: success, the whole value written, the true size reported.       *)
(***************************************************************************)
\* At most MaxFaults non-default answers in one run.
MaxFaults == 1

\* The runtime reports at most MaxPlatforms platforms, MaxDevices devices each.
MaxPlatforms == 2

MaxDevices == 2

\* Status codes a failing call returns: one of the table for a property or
\* image-format call, that one or one outside the table for an enumeration.
FailCodes == {CL_INVALID_VALUE}

EnumFailCodes == {CL_INVALID_VALUE, -1001}

Ok == [k |-> "ok", st |-> CL_SUCCESS]

Fails == {[k |-> "fail", st |-> c] : c \in FailCodes}

EnumFails == {[k |-> "fail", st |-> c] : c \in EnumFailCodes}

\* success, but the reported size exceeds the buffer passed in
Trunc == [k |-> "trunc", st |-> CL_SUCCESS]

\* success, but only the low 4 bytes of the 8-byte buffer are written
Narrow == [k |-> "narrow", st |-> CL_SUCCESS]

\* success, and the string holds no token
Empty == [k |-> "empty", st |-> CL_SUCCESS]

FlagQueries == {"TYPE", "EXECUTION_CAPABILITIES"}

IndexQueries == {"GLOBAL_MEM_CACHE_TYPE", "CL_DEVICE_LOCAL_MEM_TYPE"}

Range(s) == {s[i] : i \in 1 .. Len(s)}

Names(table) == Range(table) \ {NULL}

ExtensionNames == {"EXTENSIONS", "extensions"}

DeviceStrQueries == Names(strProps("cpp"))

DeviceValQueries ==
  FlagQueries \cup IndexQueries \cup Names(hexProps) \cup Names(longProps)

DeviceQueries == DeviceStrQueries \cup DeviceValQueries \cup {"MAX_WORK_ITEM_SIZES"}

PlatformQueries == Names(props("cpp"))

ImageQueries == {"clCreateContext", "num_image_formats", "image_formats", "clReleaseContext"}

\* success, and the runtime supports no image format at all
NoFormat == [k |-> "zero", st |-> CL_SUCCESS]

\* success, and the formats listed are outside the tables of the program
OddFormat == [k |-> "odd", st |-> CL_SUCCESS]

\* The entries of longProps, all handled by one loop body, that the runtime
\* may answer in a non-default way: the first, the last, and an 8-byte
\* memory size with the 4-byte boolean queried right after it.
FaultyLongProps == {"VENDOR_ID", "MAX_MEM_ALLOC_SIZE", "IMAGE_SUPPORT", "COMPILER_AVAILABLE"}

Steady == Names(longProps) \ FaultyLongProps

\* The non-default answers the runtime can give to a query.
Deviations(q) ==
  IF q \in Steady THEN {} ELSE
  Fails
    \cup (IF q \in DeviceQueries \cup PlatformQueries THEN {Trunc} ELSE {})
    \cup (IF q \in DeviceValQueries THEN {Narrow} ELSE {})
    \cup (IF q \in ExtensionNames THEN {Empty} ELSE {})
    \cup (IF q = "num_image_formats" THEN {NoFormat} ELSE {})
    \cup (IF q = "image_formats" THEN {OddFormat} ELSE {})

PlanQueries(S) == {pt.q : pt \in S}

DeviationPoints(queries) ==
  UNION { {[q |-> q, a |-> a] : a \in Deviations(q)} : q \in queries }

\* Every plan over the given queries with at most b non-default answers.
RECURSIVE Plans(_, _)
Plans(queries, b) ==
  IF b = 0 THEN {{}}
  ELSE LET smaller == Plans(queries, b - 1)
       IN  smaller \cup
           UNION { { S \cup {pt} :
                       pt \in {x \in DeviationPoints(queries) : x.q \notin PlanQueries(S)} } :
                   S \in smaller }

\* The runtime's answer to query q under a plan.
Answer(plan, q) ==
  IF q \in PlanQueries(plan) THEN (CHOOSE pt \in plan : pt.q = q).a ELSE Ok

\* The text the runtime returns for a string property.
RuntimeText(q, a) ==
  IF a.k = "empty" THEN <<" ">>
  ELSE IF q \in ExtensionNames THEN <<"b", " ", "a">>
  ELSE <<"x">>

\* The 64-bit value the runtime holds for a scalar property: two memory
\* sizes of 4 GiB, a GPU, a kernel-executing device, small numbers otherwise.
RuntimeValue(q) ==
  IF q \in {"MAX_MEM_ALLOC_SIZE", "GLOBAL_MEM_SIZE"} THEN U64(0, 0, 1, 0)
  ELSE IF q = "TYPE" THEN U64(CL_DEVICE_TYPE_GPU, 0, 0, 0)
  ELSE IF q = "EXECUTION_CAPABILITIES" THEN U64(CL_EXEC_KERNEL, 0, 0, 0)
  ELSE IF q \in IndexQueries THEN U64(2, 0, 0, 0)
  ELSE U64(5, 0, 0, 0)

\* The value a query returns: a narrow answer is a 32-bit 1.
Returned(q, a) == IF a.k = "narrow" THEN U64(1, 0, 0, 0) ELSE RuntimeValue(q)

\* What val holds after clGetDeviceInfo(.., sizeof val, &val, ..): a failing
\* call writes nothing, a narrow answer overwrites the low 4 bytes only
\* (little-endian host), any other answer all 8 bytes.
WriteVal(val, q, a) ==
  IF a.k = "fail" THEN val
  ELSE IF a.k = "narrow" THEN U64(Returned(q, a)[1], Returned(q, a)[2], val[3], val[4])
  ELSE Returned(q, a)

\* The size in bytes the runtime reports for a value of actual bytes, asked
\* into a buffer of cap bytes.
ReportedSize(a, cap, actual) ==
  IF a.k = "trunc" THEN cap + 1 ELSE IF a.k = "narrow" THEN 4 ELSE actual

\* What an uninitialised uint64_t may hold.
UninitVals == {U64Zero, U64(65535, 65535, 65535, 65535)}

(***************************************************************************)
(* What the program writes.  A pass threads a record s through the steps   *)
(* of the code: s.out, s.err and s.calls are the streams and the call log, *)
(* s.val is the scratch variable val of print_device, s.contexts and       *)
(* s.buffers are the contexts and arrays held, and s.halt says whether the *)
(* process is still running ("no"), has called exit(1) ("exit1") or was    *)
(* killed ("crash").  A line of a device names the device *)
(* index only; the platform index p is kept beside it to tell the devices  *)
(* of different platforms apart.                                           *)
(***************************************************************************)
Platform(p) == [e |-> "platform", p |-> p, d |-> 0 - 1]

Device(p, d) == [e |-> "device", p |-> p, d |-> d]

Top == [e |-> "top", p |-> 0 - 1, d |-> 0 - 1]

OutLine(k, ent, name, v) ==
  [k |-> k, e |-> ent.e, p |-> ent.p, d |-> ent.d, name |-> name, v |-> v]

\* "<entity>[i]: Unable to get <name>: <cl_strerror(st)>"
ErrFail(ent, name, st) ==
  [k |-> "fail", e |-> ent.e, p |-> ent.p, d |-> ent.d, name |-> name,
   text |-> cl_strerror(st), size |-> 0, cap |-> 0]

\* "<entity>[i]: Large <name> (<size> bytes)!  Truncating to <cap>"
ErrTrunc(ent, name, size, cap) ==
  [k |-> "trunc", e |-> ent.e, p |-> ent.p, d |-> ent.d, name |-> name,
   text |-> [msg |-> "", num |-> <<>>], size |-> size, cap |-> cap]

\* One runtime call: the function, the entity, the property, the answer, the
\* buffer size passed, the size the runtime reports, and whether the caller
\* passed a place for that size.
Call(fn, ent, q, a, cap, size, sized) ==
  [fn |-> fn, e |-> ent.e, p |-> ent.p, d |-> ent.d, q |-> q, a |-> a,
   cap |-> cap, size |-> size, sized |-> sized]

\* Whether what is written for a line ends with "\n": everything on stdout
\* does but the "IMAGE FORMATS" label, printf("device[%d]: %-30s:", ...).
EndsLine(line) == line.k # "label"

PutOut(s, line) == [s EXCEPT !.out = Append(@, line)]

\* A diagnostic written to stdout instead of stderr.
PutErr_stdout(s, line) == [s EXCEPT !.out = Append(@, line)]

PutErr(s, line) == [s EXCEPT !.err = Append(@, line)]

PutCall(s, c) == [s EXCEPT !.calls = Append(@, c)]

\* The status of a process killed by SIGSEGV, as a shell reports it.
Killed == 128 + 11

(***************************************************************************)
(* print_extensions (C++) and the strtok loop (C).                         *)
(***************************************************************************)
WhiteSpace == {" ", "\t", "\n"}

\* The tokens of text between runs of separators, in source order.
RECURSIVE Split(_, _, _, _)
Split(text, seps, i, word) ==
  IF i > Len(text)
  THEN (IF word = <<>> THEN <<>> ELSE <<word>>)
  ELSE IF text[i] \in seps
       THEN (IF word = <<>> THEN <<>> ELSE <<word>>) \o Split(text, seps, i + 1, <<>>)
       ELSE Split(text, seps, i + 1, Append(word, text[i]))

CharCode(c) ==
  CASE c = "\t" -> 9 [] c = "\n" -> 10 [] c = " " -> 32
    [] c = "a" -> 97 [] c = "b" -> 98 [] c = "c" -> 99 [] OTHER -> 120

\* std::string operator<
RECURSIVE StringLess(_, _)
StringLess(x, y) ==
  IF y = <<>> THEN FALSE
  ELSE IF x = <<>> THEN TRUE
  ELSE IF CharCode(Head(x)) # CharCode(Head(y)) THEN CharCode(Head(x)) < CharCode(Head(y))
  ELSE StringLess(Tail(x), Tail(y))

RECURSIVE Insert(_, _)
Insert(w, sorted) ==
  IF sorted = <<>> THEN <<w>>
  ELSE IF StringLess(w, Head(sorted)) THEN <<w>> \o sorted
  ELSE <<Head(sorted)>> \o Insert(w, Tail(sorted))

\* sort that keeps one copy of each word, as a std::set would.
RECURSIVE sort_unique(_)
sort_unique(words) ==
  IF words = <<>> THEN <<>>
  ELSE IF \E i \in 2 .. Len(words) : words[i] = Head(words)
       THEN sort_unique(Tail(words))
       ELSE Insert(Head(words), sort_unique(Tail(words)))

\* std::sort(words.begin(), words.end())
RECURSIVE sort(_)
sort(words) == IF words = <<>> THEN <<>> ELSE Insert(Head(words), sort(Tail(words)))

\* The blanks "cout << setw(width) << " "" writes: the one-character string
\* padded to width, never fewer than the one blank itself.
SetwBlank(width) == IF width > 1 THEN width ELSE 1

\* WordLines without the padding rule of setw: width blanks whatever width.
WordLines_exact(words, width) ==
  [i \in 1 .. Len(words) |-> [indent |-> IF i = 1 THEN 0 ELSE width, word |-> words[i]]]

\* The first word unindented, each later one on its own line after the
\* blanks of setw(width) << " ".
WordLines(words, width) ==
  [i \in 1 .. Len(words) |->
     [indent |-> IF i = 1 THEN 0 ELSE SetwBlank(width), word |-> words[i]]]

\* What reading a missing first word puts on stdout when it does not kill
\* the process.
Garbage == <<[indent |-> 0, word |-> <<"?">>]>>

\* print_extensions(buf, width) of the C++ programs.  With no word at all,
\* words[0] and the loop "ii != words.size()" from 1 read outside the
\* vector: the process is killed, after printing garbage or not (u).
print_extensions(s, ent, name, buf, width, u) ==
  LET words == sort(Split(buf, WhiteSpace, 1, <<>>))
  IN  IF words # <<>>
      THEN PutOut(s, OutLine("prop", ent, name, WordLines(words, width)))
      ELSE [(IF u = "garbage" THEN PutOut(s, OutLine("prop", ent, name, Garbage)) ELSE s)
              EXCEPT !.halt = "crash"]

\* The strtok(buf, " ") loop of the C program.  With no word, the first
\* strtok returns NULL and printf("%s") is handed NULL: the process is
\* killed, or a placeholder is printed and the walk goes on (u).
strtok_lines(s, ent, name, buf, width, u) ==
  LET words == Split(buf, {" "}, 1, <<>>)
  IN  IF words # <<>>
      THEN PutOut(s, OutLine("prop", ent, name, WordLines(words, width)))
      ELSE IF u = "garbage"
           THEN PutOut(s, OutLine("prop", ent, name, Garbage))
           ELSE [s EXCEPT !.halt = "crash"]

UBOutcomes == {"crash", "garbage"}

(***************************************************************************)
(* One string property of a platform or a device: the body of the loops    *)
(* over props (print_platform) and strProps (print_device).                *)
(***************************************************************************)
StrProp(s, v, ent, name, plan, width, u) ==
  LET a    == Answer(plan, name)
      buf  == RuntimeText(name, a)
      size == ReportedSize(a, BufSize, Len(buf) + 1)
      fn   == IF ent.e = "platform" THEN "clGetPlatformInfo" ELSE "clGetDeviceInfo"
      s1   == PutCall(s, Call(fn, ent, name, a, BufSize, size, TRUE))
      s2   == IF size > BufSize THEN PutErr(s1, ErrTrunc(ent, name, size, BufSize)) ELSE s1
  IN  IF s.halt # "no" THEN s
      ELSE IF a.st # CL_SUCCESS
      THEN \* C++ print_platform reports through check_opencl_status, which
           \* calls exit(1); every other walk reports and continues.
           IF ent.e = "platform" /\ v = "cpp"
           THEN [PutErr(s1, ErrFail(ent, name, a.st)) EXCEPT !.halt = "exit1"]
           ELSE PutErr(s1, ErrFail(ent, name, a.st))
      ELSE IF name \notin ExtensionNames
      THEN PutOut(s2, OutLine("prop", ent, name, buf))
      ELSE IF v = "cpp"
      THEN print_extensions(s2, ent, name, buf, width, u)
      ELSE strtok_lines(s2, ent, name, buf, width, u)

RECURSIVE WalkStr(_, _, _, _, _, _, _, _)
WalkStr(s, v, ent, table, ii, plan, width, u) ==
  IF table[ii] = NULL THEN s
  ELSE LET next == StrProp(s, v, ent, table[ii], plan, width, u)
       IN  IF next.halt = "no"
           THEN WalkStr(next, v, ent, table, ii + 1, plan, width, u)
           ELSE next

(***************************************************************************)
(* The scalar properties of print_device, all read into val.               *)
(***************************************************************************)
\* val & flag, for a flag in the low 16 bits
HasFlag(val, flag) == (val[1] \div flag) % 2 = 1

\* A flag test that leaves the flag in val.
ClearFlag_not(val, flag) == val

\* val &= ~flag
ClearFlag(val, flag) == [val EXCEPT ![1] = @ - flag]

DeviceTypeFlags == <<
  [bit |-> CL_DEVICE_TYPE_DEFAULT,     name |-> "Default"],
  [bit |-> CL_DEVICE_TYPE_CPU,         name |-> "CPU"],
  [bit |-> CL_DEVICE_TYPE_GPU,         name |-> "GPU"],
  [bit |-> CL_DEVICE_TYPE_ACCELERATOR, name |-> "Accelerator"] >>

ExecFlags == <<
  [bit |-> CL_EXEC_KERNEL,        name |-> "Kernel"],
  [bit |-> CL_EXEC_NATIVE_KERNEL, name |-> "Native"] >>

\* The chain of "if (val & F) { val &= ~F; print name }" tests, in order:
\* the names printed and what is left in val.
RECURSIVE TestFlags(_, _, _, _)
TestFlags(val, flags, i, names) ==
  IF i > Len(flags) THEN [names |-> names, val |-> val]
  ELSE IF HasFlag(val, flags[i].bit)
       THEN TestFlags(ClearFlag(val, flags[i].bit), flags, i + 1, Append(names, flags[i].name))
       ELSE TestFlags(val, flags, i + 1, names)

\* The width of unsigned long: the Makefiles build with gcc or g++ on Linux
\* (x86_64) or Darwin, where it has 64 bits.
LongBits == 64

\* (unsigned long) val
UnsignedLong(val) ==
  [i \in 1 .. 4 |-> IF 16 * i <= LongBits THEN val[i] ELSE 0]

\* The text after the label of TYPE or EXECUTION_CAPABILITIES: the names of
\* the flags found, then "Unknown (0x%lx)" with what is left of val if that
\* is not 0.  val is what the chain of tests leaves in val.
print_flags(val, flags) ==
  LET t == TestFlags(val, flags, 1, <<>>)
  IN  [names   |-> t.names,
       unknown |-> IF t.val # U64Zero THEN <<UnsignedLong(t.val)>> ELSE <<>>,
       val     |-> t.val]

\* TYPE and EXECUTION_CAPABILITIES: no size is asked for; the known flags
\* are printed and cleared, what remains is printed as "Unknown (0x..)".
FlagProp(s, ent, name, flags, plan) ==
  LET a  == Answer(plan, name)
      s1 == [PutCall(s, Call("clGetDeviceInfo", ent, name, a, ValSize,
                             ReportedSize(a, ValSize, ValSize), FALSE))
               EXCEPT !.val = WriteVal(s.val, name, a)]
      t  == print_flags(s1.val, flags)
  IN  IF s.halt # "no" THEN s
      ELSE IF a.st = CL_SUCCESS
      THEN [PutOut(s1, OutLine("prop", ent, name,
                               [arg |-> s1.val, names |-> t.names, unknown |-> t.val]))
              EXCEPT !.val = t.val]
      ELSE PutErr(s1, ErrFail(ent, name, a.st))

cacheTypes == <<"None", "Read-Only", "Read-Write">>

lmemTypes == <<"???", "Local", "Global">>

\* val < numTypes, with numTypes the length of a short table
Below(val, n) == val[4] = 0 /\ val[3] = 0 /\ val[2] = 0 /\ val[1] < n

\* 2^64 - v: the magnitude of the negative number the bits of v stand for.
Negated(v) ==
  LET c1 == (LimbBase - 1 - v[1]) + 1
      c2 == (LimbBase - 1 - v[2]) + c1 \div LimbBase
      c3 == (LimbBase - 1 - v[3]) + c2 \div LimbBase
      c4 == (LimbBase - 1 - v[4]) + c3 \div LimbBase
  IN  U64(c1 % LimbBase, c2 % LimbBase, c3 % LimbBase, c4 % LimbBase)

\* printf("%ld", (unsigned long) val): the bits are read as a signed long.
SignedDecimal(v) ==
  IF v[4] >= LimbBase \div 2 THEN [neg |-> TRUE, mag |-> Negated(v)]
  ELSE [neg |-> FALSE, mag |-> v]

\* cout << val, and printf("%" PRIu64, val)
UnsignedDecimal(v) == [neg |-> FALSE, mag |-> v]

\* "%s (%ld)" and its like: the table entries read, the name printed and
\* the number printed in the parentheses.  GLOBAL_MEM_CACHE_TYPE goes through
\* %ld in every program; LOCAL_MEM_TYPE through cout << val or PRIu64.
index_text(name, val, table) ==
  [read |-> IF Below(val, Len(table)) THEN <<val[1]>> ELSE <<>>,
   sym  |-> IF Below(val, Len(table)) THEN table[val[1] + 1] ELSE "???",
   num  |-> IF name = "GLOBAL_MEM_CACHE_TYPE"
            THEN SignedDecimal(UnsignedLong(val))
            ELSE UnsignedDecimal(val)]

\* GLOBAL_MEM_CACHE_TYPE and LOCAL_MEM_TYPE: val indexes a table of names.
IndexProp(s, ent, name, table, plan) ==
  LET a  == Answer(plan, name)
      s1 == [PutCall(s, Call("clGetDeviceInfo", ent, name, a, ValSize,
                             ReportedSize(a, ValSize, ValSize), FALSE))
               EXCEPT !.val = WriteVal(s.val, name, a)]
      sym == index_text(name, s1.val, table).sym
  IN  IF s.halt # "no" THEN s
      ELSE IF a.st = CL_SUCCESS
      THEN PutOut(s1, OutLine("prop", ent, name, [arg |-> s1.val, text |-> sym]))
      ELSE PutErr(s1, ErrFail(ent, name, a.st))

\* ScalarProp with the failure reported the way check_opencl_status reports:
\* the diagnostic, then exit(1).
ScalarProp_abort(s, v, ent, name, kind, plan) ==
  LET a    == Answer(plan, name)
      size == ReportedSize(a, ValSize, ValSize)
      s1   == [PutCall(s, Call("clGetDeviceInfo", ent, name, a, ValSize, size, TRUE))
                 EXCEPT !.val = WriteVal(s.val, name, a)]
      s2   == IF size > ValSize THEN PutErr(s1, ErrTrunc(ent, name, size, ValSize)) ELSE s1
      text == IF kind = "hex" THEN <<"0x%x">>
              ELSE IF v = "cpp" THEN format_long(s1.val)
              ELSE <<"%'llu">>
  IN  IF s.halt # "no" THEN s
      ELSE IF a.st # CL_SUCCESS
      THEN [PutErr(s1, ErrFail(ent, name, a.st)) EXCEPT !.halt = "exit1"]
      ELSE PutOut(s2, OutLine("prop", ent, name, [arg |-> s1.val, text |-> text]))

\* ScalarProp asking a second time when the query has failed.
ScalarProp_retry(s, v, ent, name, kind, plan) ==
  LET a    == Answer(plan, name)
      size == ReportedSize(a, ValSize, ValSize)
      s1   == [PutCall(s, Call("clGetDeviceInfo", ent, name, a, ValSize, size, TRUE))
                 EXCEPT !.val = WriteVal(s.val, name, a)]
      s2   == IF size > ValSize THEN PutErr(s1, ErrTrunc(ent, name, size, ValSize)) ELSE s1
      text == IF kind = "hex" THEN <<"0x%x">>
              ELSE IF v = "cpp" THEN format_long(s1.val)
              ELSE <<"%'llu">>
  IN  IF s.halt # "no" THEN s
      ELSE IF a.st # CL_SUCCESS
      THEN PutErr(PutCall(s1, Call("clGetDeviceInfo", ent, name, a, ValSize, size, TRUE)),
                  ErrFail(ent, name, a.st))
      ELSE PutOut(s2, OutLine("prop", ent, name, [arg |-> s1.val, text |-> text]))

\* One entry of hexProps or longProps: the size is asked for and compared
\* with sizeof val.  The C++ programs print a long property through
\* format_long; the hex conversion and printf("%'" PRIu64) are the
\* library's and are kept as the format with its argument.
ScalarProp(s, v, ent, name, kind, plan) ==
  LET a    == Answer(plan, name)
      size == ReportedSize(a, ValSize, ValSize)
      s1   == [PutCall(s, Call("clGetDeviceInfo", ent, name, a, ValSize, size, TRUE))
                 EXCEPT !.val = WriteVal(s.val, name, a)]
      s2   == IF size > ValSize THEN PutErr(s1, ErrTrunc(ent, name, size, ValSize)) ELSE s1
      text == IF kind = "hex" THEN <<"0x%x">>
              ELSE IF v = "cpp" THEN format_long(s1.val)
              ELSE <<"%'llu">>
  IN  IF s.halt # "no" THEN s
      ELSE IF a.st # CL_SUCCESS
      THEN PutErr(s1, ErrFail(ent, name, a.st))
      ELSE PutOut(s2, OutLine("prop", ent, name, [arg |-> s1.val, text |-> text]))

RECURSIVE WalkScalar(_, _, _, _, _, _, _)
WalkScalar(s, v, ent, table, ii, kind, plan) ==
  IF table[ii] = NULL THEN s
  ELSE LET next == ScalarProp(s, v, ent, table[ii], kind, plan)
       IN  IF next.halt = "no"
           THEN WalkScalar(next, v, ent, table, ii + 1, kind, plan)
           ELSE next

\* The three sizes the runtime holds for MAX_WORK_ITEM_SIZES.
RuntimeWorkItemSizes == <<1024, 1024, 64>>

\* MAX_WORK_ITEM_SIZES: three size_t, no size asked for.
WorkItemSizes(s, ent, plan) ==
  LET name == "MAX_WORK_ITEM_SIZES"
      a    == Answer(plan, name)
      s1   == PutCall(s, Call("clGetDeviceInfo", ent, name, a, WorkItemSizesSize,
                              ReportedSize(a, WorkItemSizesSize, WorkItemSizesSize), FALSE))
  IN  IF s.halt # "no" THEN s
      ELSE IF a.st # CL_SUCCESS
      THEN PutErr(s1, ErrFail(ent, name, a.st))
      ELSE PutOut(s1, OutLine("prop", ent, name, RuntimeWorkItemSizes))

\* Column at which the later words of a device's EXTENSIONS start: 43 in
\* the C++ programs, "%42s" and a space in the C program.
DeviceIndent == 43

\* The same for a platform: 25, "%24s" and a space.
PlatformIndent == 25

\* print_device with the TYPE query moved behind every other property.
print_device_type_last(s0, v, ent, plan, v0, u) ==
  LET s     == [s0 EXCEPT !.val = v0]
      type(x)  == FlagProp(x, ent, "TYPE", DeviceTypeFlags, plan)
      strs(x)  == WalkStr(x, v, ent, strProps(v), 1, plan, DeviceIndent, u)
      exec(x)  == FlagProp(x, ent, "EXECUTION_CAPABILITIES", ExecFlags, plan)
      cache(x) == IndexProp(x, ent, "GLOBAL_MEM_CACHE_TYPE", cacheTypes, plan)
      lmem(x)  == IndexProp(x, ent, "CL_DEVICE_LOCAL_MEM_TYPE", lmemTypes, plan)
      hexs(x)  == WalkScalar(x, v, ent, hexProps, 1, "hex", plan)
      longs(x) == WalkScalar(x, v, ent, longProps, 1, "long", plan)
  IN  type(WorkItemSizes(longs(hexs(lmem(cache(exec(strs(s)))))), ent, plan))

(***************************************************************************)
(* print_device up to the image formats: every property query of a device, *)
(* in the order of the program (the C program walks strProps first).  val  *)
(* starts uninitialised (v0).                                              *)
(***************************************************************************)
print_device(s0, v, ent, plan, v0, u) ==
  LET s     == [s0 EXCEPT !.val = v0]
      type(x)  == FlagProp(x, ent, "TYPE", DeviceTypeFlags, plan)
      strs(x)  == WalkStr(x, v, ent, strProps(v), 1, plan, DeviceIndent, u)
      exec(x)  == FlagProp(x, ent, "EXECUTION_CAPABILITIES", ExecFlags, plan)
      cache(x) == IndexProp(x, ent, "GLOBAL_MEM_CACHE_TYPE", cacheTypes, plan)
      lmem(x)  == IndexProp(x, ent, "CL_DEVICE_LOCAL_MEM_TYPE", lmemTypes, plan)
      hexs(x)  == WalkScalar(x, v, ent, hexProps, 1, "hex", plan)
      longs(x) == WalkScalar(x, v, ent, longProps, 1, "long", plan)
      first    == IF v = "cpp" THEN strs(type(s)) ELSE type(strs(s))
  IN  WorkItemSizes(longs(hexs(lmem(cache(exec(first))))), ent, plan)

\* The display names of the device properties in the order print_device
\* queries them.
DeviceOrder(v) ==
  (IF v = "cpp" THEN <<"TYPE">> \o SubSeq(strProps(v), 1, 6)
                ELSE SubSeq(strProps(v), 1, 6) \o <<"TYPE">>)
    \o <<"EXECUTION_CAPABILITIES", "GLOBAL_MEM_CACHE_TYPE", "CL_DEVICE_LOCAL_MEM_TYPE">>
    \o HEX_PROPS \o LONG_PROPS \o <<"MAX_WORK_ITEM_SIZES">>

(***************************************************************************)
(* print_image_formats.                                                    *)
(***************************************************************************)
\* "\tdevice[i]: Unable to <step>: <cl_strerror(st)>!"
ErrStep(ent, step, st) ==
  [k |-> "step", e |-> ent.e, p |-> ent.p, d |-> ent.d, name |-> step,
   text |-> cl_strerror(st), size |-> 0, cap |-> 0]

\* The case labels of the two switch statements (CL_DEPTH, CL_DEPTH_STENCIL
\* and CL_UNORM_INT24 when the header defines them).
ChannelOrders ==
  {"CL_R", "CL_A", "CL_RG", "CL_RA", "CL_RGB", "CL_RGBA", "CL_BGRA", "CL_ARGB",
   "CL_INTENSITY", "CL_LUMINANCE", "CL_Rx", "CL_RGx", "CL_RGBx", "CL_DEPTH",
   "CL_DEPTH_STENCIL"}

ChannelTypes ==
  {"CL_SNORM_INT8", "CL_SNORM_INT16", "CL_UNORM_INT8", "CL_UNORM_INT16",
   "CL_UNORM_SHORT_565", "CL_UNORM_SHORT_555", "CL_UNORM_INT_101010",
   "CL_SIGNED_INT8", "CL_SIGNED_INT16", "CL_SIGNED_INT32", "CL_UNSIGNED_INT8",
   "CL_UNSIGNED_INT16", "CL_UNSIGNED_INT32", "CL_HALF_FLOAT", "CL_FLOAT",
   "CL_UNORM_INT24"}

order_text(o) == IF o \in ChannelOrders THEN <<o>> ELSE <<"UKNOWN", o>>

type_text(t) == IF t \in ChannelTypes THEN <<t>> ELSE <<"UKNOWN", t>>

\* The formats the runtime lists.
RuntimeFormats(aN, aL) ==
  IF aN.k = "zero" THEN <<>>
  ELSE IF aL.k = "odd"
  THEN <<[order |-> "0x10FF", type |-> "0x10FF"], [order |-> "CL_R", type |-> "0x10FF"]>>
  ELSE <<[order |-> "CL_RGBA", type |-> "CL_UNORM_INT8"], [order |-> "CL_R", type |-> "CL_FLOAT"]>>

\* Width of the indentation printed before every format but the first.
FormatIndent == 42

\* The format loop stopping after the first format.
PrintFormats_first_only(s, ent, formats, fmt) ==
  IF fmt >= Len(formats) \/ fmt >= 1 THEN s
  ELSE PutOut(s, OutLine("fmt", ent, "IMAGE FORMATS",
                         [indent |-> 0,
                          order  |-> order_text(formats[fmt + 1].order),
                          type   |-> type_text(formats[fmt + 1].type)]))

RECURSIVE PrintFormats(_, _, _, _)
PrintFormats(s, ent, formats, fmt) ==
  IF fmt >= Len(formats) THEN s
  ELSE PrintFormats(
         PutOut(s, OutLine("fmt", ent, "IMAGE FORMATS",
                           [indent |-> IF fmt > 0 THEN FormatIndent ELSE 0,
                            order  |-> order_text(formats[fmt + 1].order),
                            type   |-> type_text(formats[fmt + 1].type)])),
         ent, formats, fmt + 1)

\* print_image_formats going on to the later steps after a failed count or
\* list query.
print_image_formats_goes_on(s, ent, plan) ==
  LET aC  == Answer(plan, "clCreateContext")
      aN  == Answer(plan, "num_image_formats")
      aL  == Answer(plan, "image_formats")
      aR  == Answer(plan, "clReleaseContext")
      ctx == Len(s.calls) + 1
      sC  == PutCall(s, Call("clCreateContext", ent, "clCreateContext", aC, 0, 0, FALSE))
      sC1 == [sC EXCEPT !.contexts = @ \cup {ctx}]
      sN  == PutCall(sC1, Call("clGetSupportedImageFormats", ent, "num_image_formats",
                               aN, 0, 0, TRUE))
      sN1 == IF aN.st # CL_SUCCESS
             THEN PutErr(sN, ErrStep(ent, "get number of supported image formats", aN.st))
             ELSE sN
      formats == RuntimeFormats(aN, aL)
      sL  == PutCall(sN1, Call("clGetSupportedImageFormats", ent, "image_formats",
                               aL, Len(formats), 0, FALSE))
      sL1 == IF aL.st # CL_SUCCESS
             THEN PutErr(sL, ErrStep(ent, "get supported image formats", aL.st))
             ELSE sL
      sP  == PrintFormats(sL1, ent, formats, 0)
      sR  == [PutCall(sP, Call("clReleaseContext", ent, "clReleaseContext", aR, 0, 0, FALSE))
                EXCEPT !.contexts = @ \ {ctx}]
  IN  IF aC.st # CL_SUCCESS THEN PutErr(sC, ErrStep(ent, "create context", aC.st))
      ELSE IF aR.st # CL_SUCCESS
      THEN PutErr(sR, ErrStep(ent, "release context", aR.st))
      ELSE sR

\* A context or an array is named by the number of the call that made it.
print_image_formats(s, ent, plan) ==
  LET aC  == Answer(plan, "clCreateContext")
      aN  == Answer(plan, "num_image_formats")
      aL  == Answer(plan, "image_formats")
      aR  == Answer(plan, "clReleaseContext")
      ctx == Len(s.calls) + 1
      sC  == PutCall(s, Call("clCreateContext", ent, "clCreateContext", aC, 0, 0, FALSE))
      sC1 == [sC EXCEPT !.contexts = @ \cup {ctx}]
      sN  == PutCall(sC1, Call("clGetSupportedImageFormats", ent, "num_image_formats",
                               aN, 0, 0, TRUE))
      formats == RuntimeFormats(aN, aL)
      sA  == [sN EXCEPT !.buffers = @ \cup {ctx}]
      sL  == PutCall(sA, Call("clGetSupportedImageFormats", ent, "image_formats",
                              aL, Len(formats), 0, FALSE))
      sP  == PrintFormats(sL, ent, formats, 0)
      sD  == [sP EXCEPT !.buffers = @ \ {ctx}]
      sR  == [PutCall(sD, Call("clReleaseContext", ent, "clReleaseContext", aR, 0, 0, FALSE))
                EXCEPT !.contexts = @ \ {ctx}]
  IN  IF aC.st # CL_SUCCESS THEN PutErr(sC, ErrStep(ent, "create context", aC.st))
      ELSE IF aN.st # CL_SUCCESS
      THEN PutErr(sN, ErrStep(ent, "get number of supported image formats", aN.st))
      ELSE IF aL.st # CL_SUCCESS
      THEN PutErr(sL, ErrStep(ent, "get supported image formats", aL.st))
      ELSE IF aR.st # CL_SUCCESS
      THEN PutErr(sR, ErrStep(ent, "release context", aR.st))
      ELSE sR

(***************************************************************************)
(* The command line: the constructor of CLinfo (C++), parse_options (C).   *)
(***************************************************************************)
\* The arguments a run may be started with: the options the programs know,
\* one short option neither knows, the end-of-options mark and an operand.
ArgInputs == {"-h", "--help", "-i", "--image-formats", "-x", "--", "file"}

MaxArgs == 2

ArgLists == UNION {[1 .. n -> ArgInputs] : n \in 0 .. MaxArgs}

\* The long options.  The table of the C++ programs ends with a zero entry;
\* the table of the C program is { { "help", 0, 0, 'h' }, } and has none.
LongOptions(v) == IF v = "cpp" THEN {"--help", "--image-formats"} ELSE {"--help"}

TableTerminated(v) == v = "cpp"

\* The option string: "hi" in the C++ programs, "h" in the C program.
ShortOptions(v) == IF v = "cpp" THEN {"-h", "-i"} ELSE {"-h"}

IsLong(a) == a \in {"--help", "--image-formats"}

IsShort(a) == a \in {"-h", "-i", "-x"}

\* What getopt_long may do when it scans past the end of a table without a
\* zero entry, looking for a name the table does not hold.
TableScanOutcomes == {"crash", "unrecognized"}

\* One call of getopt_long on the argument a: the option character, "?" for
\* an option it does not know, "EOF" at "--", "operand" for a non-option,
\* "crash" when the scan of an unterminated table faults.
getopt_long(v, a, u) ==
  IF a = "--" THEN "EOF"
  ELSE IF IsLong(a)
  THEN IF a \in LongOptions(v)
       THEN (IF a = "--help" THEN "h" ELSE "i")
       ELSE IF TableTerminated(v) THEN "?"
       ELSE IF u = "crash" THEN "crash" ELSE "?"
  ELSE IF IsShort(a)
  THEN IF a \in ShortOptions(v)
       THEN (IF a = "-h" THEN "h" ELSE "i")
       ELSE "?"
  ELSE "operand"

\* "<program>: unrecognized option '<a>'", written by getopt_long itself.
ErrGetopt(a) ==
  [k |-> "getopt", e |-> "top", p |-> 0 - 1, d |-> 0 - 1, name |-> a,
   text |-> [msg |-> "", num |-> <<>>], size |-> 0, cap |-> 0]

ErrUsage(line) ==
  [k |-> "usage", e |-> "top", p |-> 0 - 1, d |-> 0 - 1, name |-> line,
   text |-> [msg |-> "", num |-> <<>>], size |-> 0, cap |-> 0]

UsageLines(v) ==
  IF v = "cpp"
  THEN <<"Usage: %s [options]", "Options:",
         "  -h, --help                This message",
         "  -i, --image-formats       Print image formats for each device">>
  ELSE <<"Usage: %s [options]", "Options:",
         "  -h, --help                This message">>

RECURSIVE PutLines(_, _, _)
PutLines(s, lines, i) ==
  IF i > Len(lines) THEN s
  ELSE LET next == PutErr(s, ErrUsage(lines[i]))
       IN  IF next.halt = "no" THEN PutLines(next, lines, i + 1) ELSE next

\* usage(): the message on stderr, then exit(1).
usage(s, v) == [PutLines(s, UsageLines(v), 1) EXCEPT !.halt = "exit1"]

\* The option loop, had it stopped scanning at the first -i.
RECURSIVE parse_options_stop_at_i(_, _, _, _, _, _)
parse_options_stop_at_i(s, v, as, flag, posix, u) ==
  IF as = <<>> THEN [s |-> s, flag |-> flag, rest |-> as]
  ELSE LET opt == getopt_long(v, Head(as), u)
       IN  IF opt = "EOF" \/ (opt = "operand" /\ posix)
           THEN [s |-> s, flag |-> flag, rest |-> <<>>]
           ELSE IF opt = "operand"
           THEN parse_options_stop_at_i(s, v, Tail(as), flag, posix, u)
           ELSE IF opt = "crash"
           THEN [s |-> [s EXCEPT !.halt = "crash"], flag |-> flag, rest |-> as]
           ELSE IF opt = "i" /\ v = "cpp"
           THEN [s |-> s, flag |-> TRUE, rest |-> <<>>]
           ELSE IF opt = "?"
           THEN [s |-> usage(PutErr(s, ErrGetopt(Head(as))), v),
                 flag |-> flag, rest |-> as]
           ELSE [s |-> usage(s, v), flag |-> flag, rest |-> as]

\* The while loop over getopt_long.  as holds the arguments not scanned
\* yet, flag is dump_image_formats, posix says whether getopt_long stops at
\* the first operand (POSIXLY_CORRECT) or skips it.  The result carries the
\* flag and the arguments left when the loop ended.
RECURSIVE parse_options(_, _, _, _, _, _)
parse_options(s, v, as, flag, posix, u) ==
  IF as = <<>> THEN [s |-> s, flag |-> flag, rest |-> as]
  ELSE LET opt == getopt_long(v, Head(as), u)
       IN  IF opt = "EOF" \/ (opt = "operand" /\ posix)
           THEN [s |-> s, flag |-> flag, rest |-> <<>>]
           ELSE IF opt = "operand"
           THEN parse_options(s, v, Tail(as), flag, posix, u)
           ELSE IF opt = "crash"
           THEN [s |-> [s EXCEPT !.halt = "crash"], flag |-> flag, rest |-> as]
           ELSE IF opt = "i" /\ v = "cpp"
           THEN parse_options(s, v, Tail(as), TRUE, posix, u)
           ELSE IF opt = "?"
           THEN [s |-> usage(PutErr(s, ErrGetopt(Head(as))), v),
                 flag |-> flag, rest |-> as]
           ELSE [s |-> usage(s, v), flag |-> flag, rest |-> as]

(***************************************************************************)
(* The run: display() of the C++ programs, main() of the C program.        *)
(***************************************************************************)
Init ==
  /\ variant \in {"cpp", "c"}
  /\ dump_image_formats = (variant = "c")
  /\ args \in ArgLists
  /\ pc = "options"
  /\ exit_status = NotExited
  /\ num_platforms = 0
  /\ pi = 0
  /\ num_devices = 0
  /\ di = 0
  /\ out = <<>>
  /\ err = <<>>
  /\ calls = <<>>
  /\ contexts = {}
  /\ buffers = {}
  /\ budget = MaxFaults
  /\ fn_in = None
  /\ fn_out = None

\* The answers a single call can get with what is left of the budget.
OneAnswer == {Ok} \cup (IF budget > 0 THEN EnumFails ELSE {})

Cost(a) == IF a = Ok THEN 0 ELSE 1

Here == [out |-> out, err |-> err, calls |-> calls, val |-> U64Zero,
         contexts |-> contexts, buffers |-> buffers, halt |-> "no"]

\* The streams, the call log and the resources after a pass.
Store(s) ==
  /\ out' = s.out
  /\ err' = s.err
  /\ calls' = s.calls
  /\ contexts' = s.contexts
  /\ buffers' = s.buffers

\* exit(1), or death by signal: the process is gone.
Halt(s) ==
  /\ exit_status' = (IF s.halt = "exit1" THEN 1 ELSE Killed)
  /\ pc' = "exited"

\* The constructor of CLinfo / parse_options: the whole option loop.  The
\* arguments are consumed as they are scanned; when usage() ends the run,
\* args keeps the argument that caused it and those after it.
ParseOptions ==
  /\ pc = "options"
  /\ \E posix \in BOOLEAN, u \in TableScanOutcomes :
       LET r == parse_options(Here, variant, args, dump_image_formats, posix, u)
       IN  /\ Store(r.s)
           /\ dump_image_formats' = r.flag
           /\ args' = r.rest
           /\ IF r.s.halt = "no"
              THEN pc' = "start" /\ UNCHANGED exit_status
              ELSE Halt(r.s)
  /\ UNCHANGED <<variant, num_platforms, pi, num_devices, di, budget, fn_in, fn_out>>

\* GetPlatformCount with the failure reported but not fatal: the header is
\* printed with the count left at 0 and the run goes on.
GetPlatformCount_unchecked ==
  /\ pc = "start"
  /\ \E a \in OneAnswer, n \in 0 .. MaxPlatforms :
       LET s1 == PutCall(Here, Call("clGetPlatformIDs", Top, "num_platforms", a, 0, 0, TRUE))
           s2 == IF a.st # CL_SUCCESS
                 THEN PutErr(s1, ErrFail(Top, "query the number of platforms", a.st))
                 ELSE s1
       IN  /\ budget' = budget - Cost(a)
           /\ a.st # CL_SUCCESS => n = 0
           /\ Store(PutOut(s2, OutLine("platforms", Top, "", <<n>>)))
           /\ num_platforms' = n
           /\ pc' = "platform_ids"
           /\ UNCHANGED exit_status
  /\ UNCHANGED <<variant, dump_image_formats, pi, num_devices, di, fn_in, fn_out, args>>

\* clGetPlatformIDs(0, NULL, &num_platforms) and the "N platforms:" line.
GetPlatformCount ==
  /\ pc = "start"
  /\ \E a \in OneAnswer, n \in 0 .. MaxPlatforms :
       LET s1 == PutCall(Here, Call("clGetPlatformIDs", Top, "num_platforms", a, 0, 0, TRUE))
       IN  /\ budget' = budget - Cost(a)
           /\ IF a.st # CL_SUCCESS
              THEN /\ n = 0
                   /\ Store(PutErr(s1, ErrFail(Top, "query the number of platforms", a.st)))
                   /\ exit_status' = 1
                   /\ pc' = "exited"
                   /\ UNCHANGED num_platforms
              ELSE /\ Store(PutOut(s1, OutLine("platforms", Top, "", <<n>>)))
                   /\ num_platforms' = n
                   /\ pc' = "platform_ids"
                   /\ UNCHANGED exit_status
  /\ UNCHANGED <<variant, dump_image_formats, pi, num_devices, di, fn_in, fn_out, args>>

\* clGetPlatformIDs(num_platforms, platform_ids, NULL); both programs exit
\* with status 1 when it fails.
GetPlatformIDs ==
  /\ pc = "platform_ids"
  /\ \E a \in OneAnswer :
       LET s1 == PutCall(Here, Call("clGetPlatformIDs", Top, "platform_ids", a,
                                    num_platforms, 0, FALSE))
       IN  /\ budget' = budget - Cost(a)
           /\ IF a.st # CL_SUCCESS
              THEN /\ Store(PutErr(s1, ErrFail(Top, "enumerate the platforms", a.st)))
                   /\ exit_status' = 1
                   /\ pc' = "exited"
              ELSE /\ Store(s1)
                   /\ pc' = (IF 0 < num_platforms THEN "platform" ELSE "return")
                   /\ UNCHANGED exit_status
  /\ pi' = 0
  /\ UNCHANGED <<variant, dump_image_formats, num_platforms, num_devices, di, fn_in, fn_out, args>>

\* The answers that make the outcome of a missing first word matter.
Outcomes(plan) == IF \E pt \in plan : pt.a = Empty THEN UBOutcomes ELSE {"crash"}

\* The values of val before its first write that make a difference.
Uninit(plan) == IF \E pt \in plan : pt.a.k \in {"narrow", "fail"} THEN UninitVals ELSE {U64Zero}

\* print_platform: the walk over props.
PrintPlatformProps ==
  /\ pc = "platform"
  /\ \E plan \in Plans(PlatformQueries, budget) :
       \E u \in Outcomes(plan) :
         LET s == WalkStr(Here, variant, Platform(pi), props(variant), 1, plan,
                          PlatformIndent, u)
         IN  /\ budget' = budget - Cardinality(plan)
             /\ Store(s)
             /\ IF s.halt # "no" THEN Halt(s)
                ELSE pc' = "device_count" /\ UNCHANGED exit_status
  /\ UNCHANGED <<variant, dump_image_formats, num_platforms, pi, num_devices, di,
                 fn_in, fn_out, args>>

\* GetDeviceCount with the failure fatal in every program.
GetDeviceCount_fatal ==
  /\ pc = "device_count"
  /\ \E a \in OneAnswer, n \in 0 .. MaxDevices :
       LET s1 == PutCall(Here, Call("clGetDeviceIDs", Platform(pi), "num_devices", a, 0, 0, TRUE))
       IN  /\ budget' = budget - Cost(a)
           /\ IF a.st # CL_SUCCESS
              THEN /\ n = 0
                   /\ Store(PutErr(s1, ErrFail(Platform(pi), "query the number of devices", a.st)))
                   /\ exit_status' = 1 /\ pc' = "exited"
                   /\ UNCHANGED num_devices
              ELSE /\ Store(PutOut(s1, OutLine("devices", Platform(pi), "", <<n>>)))
                   /\ num_devices' = n
                   /\ pc' = "device_ids"
                   /\ UNCHANGED exit_status
  /\ UNCHANGED <<variant, dump_image_formats, num_platforms, pi, di, fn_in, fn_out, args>>

\* clGetDeviceIDs(platform, ALL, 0, NULL, &num_devices) and the
\* "platform[i], N devices:" line.  On failure the C++ programs exit(1),
\* the C program returns from print_platform.
GetDeviceCount ==
  /\ pc = "device_count"
  /\ \E a \in OneAnswer, n \in 0 .. MaxDevices :
       LET s1 == PutCall(Here, Call("clGetDeviceIDs", Platform(pi), "num_devices", a, 0, 0, TRUE))
       IN  /\ budget' = budget - Cost(a)
           /\ IF a.st # CL_SUCCESS
              THEN /\ n = 0
                   /\ Store(PutErr(s1, ErrFail(Platform(pi), "query the number of devices", a.st)))
                   /\ IF variant = "cpp"
                      THEN exit_status' = 1 /\ pc' = "exited"
                      ELSE pc' = "platform_done" /\ UNCHANGED exit_status
                   /\ UNCHANGED num_devices
              ELSE /\ Store(PutOut(s1, OutLine("devices", Platform(pi), "", <<n>>)))
                   /\ num_devices' = n
                   /\ pc' = "device_ids"
                   /\ UNCHANGED exit_status
  /\ UNCHANGED <<variant, dump_image_formats, num_platforms, pi, di, fn_in, fn_out, args>>

\* clGetDeviceIDs(platform, ALL, num_devices, device_ids, NULL).
GetDeviceIDs ==
  /\ pc = "device_ids"
  /\ \E a \in OneAnswer :
       LET s1 == PutCall(Here, Call("clGetDeviceIDs", Platform(pi), "device_ids", a,
                                    num_devices, 0, FALSE))
       IN  /\ budget' = budget - Cost(a)
           /\ IF a.st # CL_SUCCESS
              THEN /\ Store(PutErr(s1, ErrFail(Platform(pi), "enumerate the devices", a.st)))
                   /\ IF variant = "cpp"
                      THEN exit_status' = 1 /\ pc' = "exited"
                      ELSE pc' = "platform_done" /\ UNCHANGED exit_status
              ELSE /\ Store(s1)
                   /\ pc' = (IF 0 < num_devices THEN "device" ELSE "platform_done")
                   /\ UNCHANGED exit_status
  /\ di' = 0
  /\ UNCHANGED <<variant, dump_image_formats, num_platforms, pi, num_devices, fn_in, fn_out, args>>

\* print_device: every property of device di of platform pi.
PrintDevice ==
  /\ pc = "device"
  /\ \E plan \in Plans(DeviceQueries, budget) :
       \E u \in Outcomes(plan), v0 \in Uninit(plan) :
         LET s == print_device(Here, variant, Device(pi, di), plan, v0, u)
         IN  /\ budget' = budget - Cardinality(plan)
             /\ Store(s)
             /\ IF s.halt # "no" THEN Halt(s)
                ELSE /\ pc' = (IF dump_image_formats THEN "image_formats" ELSE "device_done")
                     /\ UNCHANGED exit_status
  /\ UNCHANGED <<variant, dump_image_formats, num_platforms, pi, num_devices, di,
                 fn_in, fn_out, args>>

\* The end of print_device: the "IMAGE FORMATS" label, without a newline,
\* and print_image_formats.
PrintImageFormats ==
  /\ pc = "image_formats"
  /\ \E plan \in Plans(ImageQueries, budget) :
       LET s == print_image_formats(
                  PutOut(Here, OutLine("label", Device(pi, di), "IMAGE FORMATS", <<>>)),
                  Device(pi, di), plan)
       IN  /\ budget' = budget - Cardinality(plan)
           /\ Store(s)
  /\ pc' = "device_done"
  /\ UNCHANGED <<variant, dump_image_formats, exit_status, num_platforms, pi, num_devices,
                 di, fn_in, fn_out, args>>

\* NextDevice with the separator written after every device, the last too.
NextDevice_always ==
  /\ pc = "device_done"
  /\ out' = Append(out, OutLine("dsep", Platform(pi), "", <<>>))
  /\ di' = di + 1
  /\ pc' = (IF di + 1 < num_devices THEN "device" ELSE "platform_done")
  /\ UNCHANGED <<variant, dump_image_formats, exit_status, num_platforms, pi, num_devices,
                 err, calls, contexts, buffers, budget, fn_in, fn_out, args>>

\* The device loop never leaving its last body: no ++ii, the same state
\* again.
NextDevice_stuck ==
  /\ pc = "device_done"
  /\ UNCHANGED vars

\* The end of the body of the device loop: a separator unless this was the
\* last device, then ++ii.
NextDevice ==
  /\ pc = "device_done"
  /\ out' = (IF di + 1 < num_devices
             THEN Append(out, OutLine("dsep", Platform(pi), "", <<>>)) ELSE out)
  /\ di' = di + 1
  /\ pc' = (IF di + 1 < num_devices THEN "device" ELSE "platform_done")
  /\ UNCHANGED <<variant, dump_image_formats, exit_status, num_platforms, pi, num_devices,
                 err, calls, contexts, buffers, budget, fn_in, fn_out, args>>

\* print_platform has returned: a separator unless this was the last
\* platform, then ++ii.
NextPlatform ==
  /\ pc = "platform_done"
  /\ out' = (IF pi + 1 < num_platforms
             THEN Append(out, OutLine("psep", Top, "", <<>>)) ELSE out)
  /\ pi' = pi + 1
  /\ pc' = (IF pi + 1 < num_platforms THEN "platform" ELSE "return")
  /\ UNCHANGED <<variant, dump_image_formats, exit_status, num_platforms, num_devices, di,
                 err, calls, contexts, buffers, budget, fn_in, fn_out, args>>

\* return EXIT_SUCCESS from main / exit(0).
Return ==
  /\ pc = "return"
  /\ exit_status' = 0
  /\ pc' = "exited"
  /\ UNCHANGED <<variant, dump_image_formats, num_platforms, pi, num_devices, di, out, err,
                 calls, contexts, buffers, budget, fn_in, fn_out, args>>

Next ==
  \/ ParseOptions
  \/ GetPlatformCount
  \/ GetPlatformIDs
  \/ PrintPlatformProps
  \/ GetDeviceCount
  \/ GetDeviceIDs
  \/ PrintDevice
  \/ PrintImageFormats
  \/ NextDevice
  \/ NextPlatform
  \/ Return

Spec == Init /\ [][Next]_vars

\* The places of pc in a run.
ProgramPoints ==
  {"options", "start", "platform_ids", "platform", "device_count", "device_ids", "device",
   "image_formats", "device_done", "platform_done", "return", "exited"}

\* The process moves on to another program point.  Every step of the
\* program changes pc (EveryStepMoves), and the program has a step when
\* Next has one; at the points of the property walks the step is there
\* whatever the runtime answers (the walks are total), so that Next is not
\* evaluated again there.
Advance ==
  /\ \/ pc \in {"platform", "device"}
     \/ ENABLED <<Next>>_vars
  /\ pc' \in ProgramPoints \ {pc}

\* The run of a process whose runtime calls all return: one sequential
\* thread that takes its next step whenever it has one.  Every step being
\* a change of pc, this is weak fairness of Next.
SpecLive == Init /\ [][Next]_vars /\ WF_pc(Advance)

(***************************************************************************)
(* Pure functions under check: one call of format_long, one of cl_strerror. *)
(***************************************************************************)
\* Limb values the arguments of format_long are drawn from: group borders
\* (9/10, 99/100, 999/1000), 1000000 = 15 * 2^16 + 16960, and the extremes.
FormatLimb1 == {0, 1, 9, 10, 99, 100, 999, 1000, 1001, 16960, 65535}
FormatLimb2 == {0, 1, 15, 65535}
FormatLimbHigh == {0, 1, 65535}

FormatInputs ==
  {U64(a, b, c, d) : a \in FormatLimb1, b \in FormatLimb2,
                     c \in FormatLimbHigh, d \in FormatLimbHigh}

\* Status codes range over -MaxStatus .. MaxStatus and a few far ones.
MaxStatus == 60

FarStatus == {-1001, -2147483647, 2147483647}

StatusInputs == ((0 - MaxStatus) .. MaxStatus) \cup FarStatus

RunIdle ==
  /\ args = <<>>
  /\ variant = "cpp"
  /\ dump_image_formats = FALSE
  /\ exit_status = NotExited
  /\ num_platforms = 0
  /\ pi = 0
  /\ num_devices = 0
  /\ di = 0
  /\ out = <<>>
  /\ err = <<>>
  /\ calls = <<>>
  /\ contexts = {}
  /\ buffers = {}
  /\ budget = 0

InitFormat ==
  /\ RunIdle
  /\ pc = "format_long"
  /\ fn_in \in FormatInputs
  /\ fn_out = None

CallFormatLong ==
  /\ pc = "format_long"
  /\ fn_out' = format_long(fn_in)
  /\ pc' = "returned"
  /\ UNCHANGED <<fn_in, run_vars>>

SpecFormat == InitFormat /\ [][CallFormatLong]_vars

InitStrerror ==
  /\ RunIdle
  /\ pc = "cl_strerror"
  /\ fn_in \in StatusInputs
  /\ fn_out = None

CallStrerror ==
  /\ pc = "cl_strerror"
  /\ fn_out' = cl_strerror(fn_in)
  /\ pc' = "returned"
  /\ UNCHANGED <<fn_in, run_vars>>

SpecStrerror == InitStrerror /\ [][CallStrerror]_vars

\* One call of the flag rendering of print_device, for TYPE and for
\* EXECUTION_CAPABILITIES, on a value of val.  The low limb ranges over every
\* combination of the known bits and two more, and the extremes; the upper
\* limbs over a few values that reach bit 63.
FlagLimb1 == (0 .. 63) \cup {32768, 65535}

FlagLimbHigh == {0, 1, 32768, 65535}

FlagVals == {U64(a, b, 0, d) : a \in FlagLimb1, b \in {0, 1}, d \in FlagLimbHigh}

FlagTables == [TYPE |-> DeviceTypeFlags, EXECUTION_CAPABILITIES |-> ExecFlags]

InitFlags ==
  /\ RunIdle
  /\ pc = "print_flags"
  /\ fn_in \in {[name |-> n, val |-> v] : n \in DOMAIN FlagTables, v \in FlagVals}
  /\ fn_out = None

CallPrintFlags ==
  /\ pc = "print_flags"
  /\ fn_out' = print_flags(fn_in.val, FlagTables[fn_in.name])
  /\ pc' = "returned"
  /\ UNCHANGED <<fn_in, run_vars>>

SpecFlags == InitFlags /\ [][CallPrintFlags]_vars

\* One call of the table lookup of print_device, for GLOBAL_MEM_CACHE_TYPE
\* and for LOCAL_MEM_TYPE, on a value of val: the indices around the end of
\* the table, and upper limbs that reach bit 63.
IndexVals ==
  {U64(a, b, c, d) : a \in (0 .. 5) \cup {65535}, b \in {0, 1}, c \in {0, 1},
                     d \in {0, 32767, 32768, 65535}}

IndexTables == [GLOBAL_MEM_CACHE_TYPE |-> cacheTypes, CL_DEVICE_LOCAL_MEM_TYPE |-> lmemTypes]

InitIndex ==
  /\ RunIdle
  /\ pc = "index_text"
  /\ fn_in \in {[name |-> n, val |-> v] : n \in DOMAIN IndexTables, v \in IndexVals}
  /\ fn_out = None

CallIndexText ==
  /\ pc = "index_text"
  /\ fn_out' = index_text(fn_in.name, fn_in.val, IndexTables[fn_in.name])
  /\ pc' = "returned"
  /\ UNCHANGED <<fn_in, run_vars>>

SpecIndex == InitIndex /\ [][CallIndexText]_vars

\* print_extensions called alone, on a text of at most MaxTextLen characters.
MaxTextLen == 5

TextAlphabet == {"a", "b", " ", "\t"}

TextInputs == UNION {[1 .. n -> TextAlphabet] : n \in 0 .. MaxTextLen}

WidthInputs == {0, 1, 2, 25, 43}

InitExtensions ==
  /\ RunIdle
  /\ pc = "print_extensions"
  /\ fn_in \in {[text |-> t, width |-> w] : t \in TextInputs, w \in WidthInputs}
  /\ fn_out = None

CallPrintExtensions ==
  /\ pc = "print_extensions"
  /\ \E u \in UBOutcomes :
       LET s == print_extensions(Here, Top, "extensions", fn_in.text, fn_in.width, u)
       IN  fn_out' = [out |-> s.out, halt |-> s.halt]
  /\ pc' = "returned"
  /\ UNCHANGED <<fn_in, run_vars>>

SpecExtensions == InitExtensions /\ [][CallPrintExtensions]_vars

\* One call of the strtok loop of the C program on a text, at the two
\* indentations of its call sites.
InitStrtok ==
  /\ RunIdle
  /\ pc = "strtok_lines"
  /\ fn_in \in {[text |-> t, width |-> w] : t \in TextInputs,
                                            w \in {PlatformIndent, DeviceIndent}}
  /\ fn_out = None

CallStrtokLines ==
  /\ pc = "strtok_lines"
  /\ \E u \in UBOutcomes :
       LET s == strtok_lines(Here, Top, "extensions", fn_in.text, fn_in.width, u)
       IN  fn_out' = [out |-> s.out, halt |-> s.halt]
  /\ pc' = "returned"
  /\ UNCHANGED <<fn_in, run_vars>>

SpecStrtok == InitStrtok /\ [][CallStrtokLines]_vars

\* One run of the format loop of print_image_formats over a list of up to
\* MaxFormats formats; 0x10FF stands for a value no case label has.
MaxFormats == 3

ImageFormatInputs ==
  LET one == {[order |-> o, type |-> ty] : o \in {"CL_R", "CL_RGBA", "0x10FF"},
                                           ty \in {"CL_FLOAT", "0x10FF"}}
  IN  UNION {[1 .. n -> one] : n \in 0 .. MaxFormats}

InitFormats ==
  /\ RunIdle
  /\ pc = "PrintFormats"
  /\ fn_in \in ImageFormatInputs
  /\ fn_out = None

CallPrintFormats ==
  /\ pc = "PrintFormats"
  /\ fn_out' = PrintFormats(Here, Device(0, 0), fn_in, 0).out
  /\ pc' = "returned"
  /\ UNCHANGED <<fn_in, run_vars>>

SpecFormats == InitFormats /\ [][CallPrintFormats]_vars

(***************************************************************************)
(* Output columns.  Columns count from 0; a line's value starts after the  *)
(* characters its printf or its << chain writes before it.                 *)
(***************************************************************************)
\* The number of characters %d and operator<<(int) write for an index.
RECURSIVE Digits(_)
Digits(n) == IF n < 10 THEN 1 ELSE 1 + Digits(n \div 10)

\* %-30s, left << setw(30): the name, padded with blanks up to the width.
Padded(name, width) == IF Len(name) < width THEN width ELSE Len(name)

\* The column at which the value of a line starts: for a label line, the
\* column after the colon.
ValueColumn(l) ==
  LET device   == Len("device[") + Digits(l.d) + Len("]: ")
      platform == Len("platform[") + Digits(l.p) + Len("]: ")
  IN  CASE l.e = "platform" -> platform + Padded(l.name, 10) + Len(": ")
        [] l.k = "label"    -> device + Padded(l.name, 30) + Len(":")
        [] l.name = "TYPE"  -> device + Len("TYPE                          : ")
        [] l.name = "EXECUTION_CAPABILITIES" ->
             device + Len("EXECUTION_CAPABILITIES        : ")
        [] l.name = "GLOBAL_MEM_CACHE_TYPE" ->
             device + Len("GLOBAL_MEM_CACHE_TYPE         : ")
        [] l.name = "CL_DEVICE_LOCAL_MEM_TYPE" ->
             device + Len("CL_DEVICE_LOCAL_MEM_TYPE      : ")
        [] OTHER            -> device + Padded(l.name, 30) + Len(": ")

\* The lines of one platform or of one device, the image formats included,
\* for indices of one, two and three digits.
MaxIndex == 100

ColumnIndices == {0, 9, 10, MaxIndex}

InitColumns ==
  /\ args = <<>>
  /\ variant \in {"cpp", "c"}
  /\ dump_image_formats = TRUE
  /\ exit_status = NotExited
  /\ num_platforms = 0
  /\ pi = 0
  /\ num_devices = 0
  /\ di = 0
  /\ out = <<>>
  /\ err = <<>>
  /\ calls = <<>>
  /\ contexts = {}
  /\ buffers = {}
  /\ budget = MaxFaults
  /\ pc = "columns"
  /\ fn_in \in {Platform(i) : i \in ColumnIndices} \cup {Device(0, i) : i \in ColumnIndices}
  /\ fn_out = None

PrintPlatformLines ==
  /\ pc = "columns"
  /\ fn_in.e = "platform"
  /\ \E plan \in Plans(PlatformQueries, budget) :
       \E u \in Outcomes(plan) :
         LET s == WalkStr(Here, variant, fn_in, props(variant), 1, plan, PlatformIndent, u)
         IN  /\ budget' = budget - Cardinality(plan)
             /\ Store(s)
  /\ pc' = "returned"
  /\ UNCHANGED <<variant, dump_image_formats, exit_status, num_platforms, pi, num_devices,
                 di, fn_in, fn_out, args>>

PrintDeviceLines ==
  /\ pc = "columns"
  /\ fn_in.e = "device"
  /\ \E plan \in Plans(DeviceQueries \cup ImageQueries, budget) :
       \E u \in Outcomes(plan), v0 \in Uninit(plan) :
         LET s == print_device(Here, variant, fn_in, plan, v0, u)
             t == print_image_formats(
                    PutOut(s, OutLine("label", fn_in, "IMAGE FORMATS", <<>>)), fn_in, plan)
         IN  /\ budget' = budget - Cardinality(plan)
             /\ IF s.halt = "no" THEN Store(t) ELSE Store(s)
  /\ pc' = "returned"
  /\ UNCHANGED <<variant, dump_image_formats, exit_status, num_platforms, pi, num_devices,
                 di, fn_in, fn_out, args>>

SpecColumns == InitColumns /\ [][PrintPlatformLines \/ PrintDeviceLines]_vars

(***************************************************************************)
(* Reading the streams and the call log.                                   *)
(***************************************************************************)
\* The property queries print_device made for device d of platform p.
PropertyCalls(p, d) ==
  SelectSeq(calls, LAMBDA c : c.fn = "clGetDeviceInfo" /\ c.e = "device" /\ c.p = p /\ c.d = d)

\* The property lines of device d of platform p on stdout.
PropertyLines(p, d) ==
  SelectSeq(out, LAMBDA l : l.k = "prop" /\ l.e = "device" /\ l.p = p /\ l.d = d)

\* The stderr lines of an entity about one of its properties.
Diagnostics(ent, name) ==
  SelectSeq(err, LAMBDA l : l.e = ent.e /\ l.p = ent.p /\ l.d = ent.d /\ l.name = name)

\* The stdout lines of an entity for one of its properties.
Renderings(ent, name) ==
  SelectSeq(out, LAMBDA l : l.k = "prop" /\ l.e = ent.e /\ l.p = ent.p /\ l.d = ent.d
                            /\ l.name = name)

QueryNames(cs) == [i \in 1 .. Len(cs) |-> cs[i].q]

LineNames(ls) == [i \in 1 .. Len(ls) |-> ls[i].name]

Entity(c) == [e |-> c.e, p |-> c.p, d |-> c.d]

\* print_device has walked its tables for device di of platform pi.
DevicePassDone == pc \in {"image_formats", "device_done"}

(***************************************************************************)
(* C1  When the clGetDeviceInfo query of a device property fails,          *)
(* print_device writes exactly one diagnostic line for that property to    *)
(* stderr and nothing for it to stdout, and every other device property is *)
(* still queried and rendered on stdout, in the declared order; no failed  *)
(* property query ends the process.                                        *)
(***************************************************************************)
DeviceFailureIsLocal ==
  /\ DevicePassDone =>
       LET cs == PropertyCalls(pi, di)
           ok == SelectSeq(cs, LAMBDA c : c.a.st = CL_SUCCESS)
       IN  /\ QueryNames(cs) = DeviceOrder(variant)
           /\ LineNames(PropertyLines(pi, di)) = QueryNames(ok)
           /\ \A i \in DOMAIN cs :
                cs[i].a.st # CL_SUCCESS =>
                  /\ Diagnostics(Device(pi, di), cs[i].q)
                       = <<ErrFail(Device(pi, di), cs[i].q, cs[i].a.st)>>
                  /\ Renderings(Device(pi, di), cs[i].q) = <<>>
  /\ (pc = "exited" /\ exit_status # 0 /\ calls # <<>>
        /\ calls[Len(calls)].fn = "clGetDeviceInfo")
       => calls[Len(calls)].a = Empty

\* A device whose pass is over had exactly one failing property.
DeviceFailureWitness ==
  /\ pc = "device_done"
  /\ Len(SelectSeq(PropertyCalls(pi, di), LAMBDA c : c.a.st # CL_SUCCESS)) = 1
  /\ Len(PropertyLines(pi, di)) = Len(DeviceOrder(variant)) - 1

(***************************************************************************)
(* C2  In print_platform of the C++ program, when clGetPlatformInfo fails  *)
(* for a platform property, a diagnostic naming the platform, the property *)
(* and the translated status is written and the walk continues: the failed *)
(* query is not the last call of the process.                              *)
(***************************************************************************)
PlatformFailureContinues ==
  variant = "cpp" =>
    \A i \in DOMAIN calls :
      (calls[i].fn = "clGetPlatformInfo" /\ calls[i].a.st # CL_SUCCESS) =>
        /\ Diagnostics(Entity(calls[i]), calls[i].q)
             = <<ErrFail(Entity(calls[i]), calls[i].q, calls[i].a.st)>>
        /\ ~(pc = "exited" /\ i = Len(calls))

(***************************************************************************)
(* C3  In the C++ program, when the device-count or the device-list query  *)
(* fails for platform i, a diagnostic is printed, no device of platform i  *)
(* is reported, and every later platform is still processed: when the      *)
(* process has exited, each platform after i was queried.                  *)
(***************************************************************************)
DeviceEnumerationFailureIsLocal ==
  variant = "cpp" =>
    \A i \in DOMAIN calls :
      (calls[i].fn = "clGetDeviceIDs" /\ calls[i].a.st # CL_SUCCESS) =>
        /\ Len(Diagnostics(Entity(calls[i]), IF calls[i].q = "num_devices"
                                             THEN "query the number of devices"
                                             ELSE "enumerate the devices")) = 1
        /\ \A j \in DOMAIN out : ~(out[j].e = "device" /\ out[j].p = calls[i].p)
        /\ pc = "exited" =>
             \A p \in (calls[i].p + 1) .. (num_platforms - 1) :
               \E j \in DOMAIN calls : calls[j].e = "platform" /\ calls[j].p = p

(***************************************************************************)
(* C4  In every variant, once the platform-count query has succeeded the   *)
(* process exit status is 0, whatever later call fails.                    *)
(***************************************************************************)
ExitZeroAfterPlatformCount ==
  (pc = "exited" /\ calls # <<>> /\ calls[1].a.st = CL_SUCCESS) => exit_status = 0

(***************************************************************************)
(* C5  When the platform-count query fails, the program writes one         *)
(* diagnostic with the translated status to stderr, nothing to stdout,     *)
(* makes no further runtime call and ends with a non-zero exit status.     *)
(***************************************************************************)
PlatformCountFailureIsFatal ==
  (calls # <<>> /\ calls[1].a.st # CL_SUCCESS) =>
    /\ err = <<ErrFail(Top, "query the number of platforms", calls[1].a.st)>>
    /\ out = <<>>
    /\ Len(calls) = 1
    /\ pc = "exited"
    /\ exit_status \notin {0, NotExited}

\* The count query has failed with a status outside the table.
PlatformCountFailureWitness ==
  /\ pc = "exited"
  /\ Len(calls) = 1
  /\ calls[1].q = "num_platforms"
  /\ calls[1].a.st = -1001
  /\ err # <<>>

(***************************************************************************)
(* C6  Every context print_image_formats created is released before it     *)
(* returns, on every return path: once the pass over a device is over no   *)
(* created context is left.                                                *)
(***************************************************************************)
ContextsReleased == pc = "device_done" => contexts = {}

(***************************************************************************)
(* C7  Every property query of print_platform and print_device answered    *)
(* with success and a size larger than the buffer passed in gets exactly   *)
(* one truncation warning with the entity, the property, the reported size *)
(* and the capacity on stderr, and the property is still rendered.         *)
(***************************************************************************)
TruncationWarned ==
  \A i \in DOMAIN calls :
    (calls[i].fn \in {"clGetPlatformInfo", "clGetDeviceInfo"}
       /\ calls[i].a.st = CL_SUCCESS /\ calls[i].size > calls[i].cap) =>
      /\ Diagnostics(Entity(calls[i]), calls[i].q)
           = <<ErrTrunc(Entity(calls[i]), calls[i].q, calls[i].size, calls[i].cap)>>
      /\ Len(Renderings(Entity(calls[i]), calls[i].q)) = 1

(***************************************************************************)
(* C8  The value print_device renders for a hex, large-integer or          *)
(* indexed-lookup property is the value the runtime returned for that      *)
(* property's own query: no byte of an earlier query and no uninitialised  *)
(* byte of val appears in it.                                              *)
(***************************************************************************)
ScalarQueries ==
  Names(hexProps) \cup Names(longProps) \cup IndexQueries

RenderedIsReturned ==
  DevicePassDone =>
    LET cs == PropertyCalls(pi, di)
    IN  \A i \in DOMAIN cs :
          (cs[i].q \in ScalarQueries /\ cs[i].a.st = CL_SUCCESS) =>
            \A j \in DOMAIN out :
              (out[j].k = "prop" /\ out[j].e = "device" /\ out[j].p = pi /\ out[j].d = di
                 /\ out[j].name = cs[i].q) =>
                out[j].v.arg = Returned(cs[i].q, cs[i].a)

(***************************************************************************)
(* C9  format_long(v) is the decimal digits of v in groups of three        *)
(* separated by commas, counted from the least-significant end: the        *)
(* leading group has 1 to 3 digits and no leading zero (v = 0 is "0"),     *)
(* every other group has exactly 3 digits, and removing the commas and     *)
(* reparsing the digits yields v.                                          *)
(***************************************************************************)
DigitChars == {"0", "1", "2", "3", "4", "5", "6", "7", "8", "9"}

DigitValue(c) == CHOOSE d \in 0 .. 9 : Digit(d) = c

\* acc * 10 + d on four 16-bit limbs; the carry out of the top limb is kept
\* in a fifth position so that an overflow would show.
MulAdd10(acc, d) ==
  LET t1 == acc[1] * 10 + d
      t2 == acc[2] * 10 + (t1 \div LimbBase)
      t3 == acc[3] * 10 + (t2 \div LimbBase)
      t4 == acc[4] * 10 + (t3 \div LimbBase)
  IN  <<t1 % LimbBase, t2 % LimbBase, t3 % LimbBase, t4 % LimbBase,
        acc[5] + (t4 \div LimbBase)>>

RECURSIVE ParseDecimal(_, _)
ParseDecimal(s, acc) ==
  IF s = <<>> THEN acc
  ELSE ParseDecimal(Tail(s), MulAdd10(acc, DigitValue(Head(s))))

StripCommas(s) == SelectSeq(s, LAMBDA c : c # ",")

IsGrouped(s) ==
  /\ Len(s) >= 1
  /\ \A i \in 1 .. Len(s) :
       IF (Len(s) - i + 1) % 4 = 0 THEN s[i] = "," ELSE s[i] \in DigitChars
  /\ s[1] # ","
  /\ (s[1] = "0" => s = <<"0">>)

FormatLongGroupsAndRoundTrip ==
  pc = "returned" =>
    /\ IsGrouped(fn_out)
    /\ ParseDecimal(StripCommas(fn_out), <<0, 0, 0, 0, 0>>) = fn_in \o <<0>>

\* a value of several groups, with a group that needs two padding zeros
FormatLongWitness ==
  /\ pc = "returned"
  /\ fn_in = U64(16960, 15, 0, 0)
  /\ fn_out = <<"1", ",", "0", "0", "0", ",", "0", "0", "0">>

(***************************************************************************)
(* C10  cl_strerror maps the success code to "no error" and each of the    *)
(* fourteen listed failure codes to its own phrase; no known code reaches  *)
(* the "unknown error" fallback and no two known codes share a phrase.     *)
(***************************************************************************)
KnownPhrases ==
  { <<0, "no error">>, <<-1, "device not found">>, <<-2, "device not available">>,
    <<-3, "compiler not available">>, <<-4, "mem object allocation failure">>,
    <<-5, "out of resources">>, <<-6, "out of host memory">>,
    <<-7, "profiling not available">>, <<-8, "memcopy overlaps">>,
    <<-9, "image format mismatch">>, <<-10, "image format not supported">>,
    <<-11, "build program failed">>, <<-12, "map failed">>,
    <<-30, "invalid value">>, <<-31, "invalid device type">> }

KnownCodes == {k[1] : k \in KnownPhrases}

StrerrorKnownCodes ==
  /\ Cardinality(KnownCodes) = 15
  /\ Cardinality({k[2] : k \in KnownPhrases}) = 15
  /\ pc = "returned" =>
       /\ fn_out.msg # ""
       /\ fn_out.msg # NULL
       /\ \A k \in KnownPhrases :
            fn_in = k[1] => fn_out = [msg |-> k[2], num |-> <<>>]
       /\ fn_in \in KnownCodes => fn_out.msg # "unknown error "
       /\ fn_in \notin KnownCodes => fn_out.msg = "unknown error "

StrerrorWitness ==
  /\ pc = "returned"
  /\ fn_in = CL_INVALID_DEVICE_TYPE
  /\ fn_out.msg = "invalid device type"

(***************************************************************************)
(* C11  For every status code N outside the table, cl_strerror returns     *)
(* "unknown error " followed by the complete decimal representation of N,  *)
(* sign and all digits: the 25-byte buffer never cuts the number short.    *)
(***************************************************************************)
UnknownCodeInFull ==
  (pc = "returned" /\ fn_in \notin KnownCodes) =>
    fn_out = [msg |-> "unknown error ", num |-> DecimalOf(fn_in)]

\* A negative code of ten digits is answered with its last digit missing.
UnknownCodeCutShort ==
  /\ pc = "returned"
  /\ fn_in = -2147483647
  /\ fn_out.num = <<"-", "2", "1", "4", "7", "4", "8", "3", "6", "4">>

(***************************************************************************)
(* C12  For every text with at least one token and every width w,          *)
(* print_extensions splits the text on runs of whitespace, emits the       *)
(* tokens in ascending lexicographic order, the first without indentation  *)
(* and each later one on its own line after exactly w spaces, and emits    *)
(* every token exactly as many times as it occurs in the text.             *)
(***************************************************************************)
\* The maximal runs of non-whitespace characters of a text, as <<from, to>>.
TokenSpans(text) ==
  {sp \in (1 .. Len(text)) \X (1 .. Len(text)) :
     /\ sp[1] <= sp[2]
     /\ \A k \in sp[1] .. sp[2] : text[k] \notin WhiteSpace
     /\ (sp[1] = 1 \/ text[sp[1] - 1] \in WhiteSpace)
     /\ (sp[2] = Len(text) \/ text[sp[2] + 1] \in WhiteSpace)}

Occurrences(text, w) ==
  Cardinality({sp \in TokenSpans(text) : SubSeq(text, sp[1], sp[2]) = w})

\* The lines written are the tokens of the text, sorted, each as often as
\* it occurs, the first at column 0 and the others after indent blanks.
ExtensionLines(lines, text, indent) ==
  /\ Len(lines) = Cardinality(TokenSpans(text))
  /\ \A i \in DOMAIN lines :
       /\ Occurrences(text, lines[i].word)
            = Cardinality({j \in DOMAIN lines : lines[j].word = lines[i].word})
       /\ Occurrences(text, lines[i].word) > 0
       /\ lines[i].indent = (IF i = 1 THEN 0 ELSE indent)
       /\ \A j \in DOMAIN lines : i < j => ~StringLess(lines[j].word, lines[i].word)

EmptyExtensionsGuarded ==
  \A i \in DOMAIN calls :
    calls[i].a = Empty =>
      /\ exit_status # Killed
      /\ \A j \in DOMAIN out :
           (out[j].k = "prop" /\ out[j].e = calls[i].e /\ out[j].p = calls[i].p
              /\ out[j].d = calls[i].d /\ out[j].name = calls[i].q) => out[j].v # Garbage

\* The C++ program killed right after a device returned no extension.
EmptyExtensionsKill ==
  /\ variant = "cpp"
  /\ pc = "exited"
  /\ exit_status = Killed
  /\ calls[Len(calls)].q = "EXTENSIONS"
  /\ calls[Len(calls)].a = Empty

(***************************************************************************)
(* C14  In a run that ends normally, a platform with n devices gets        *)
(* exactly max(n-1, 0) device separator lines, one between each pair of    *)
(* consecutive devices and none after the last; p platforms get exactly    *)
(* max(p-1, 0) platform separator lines, one between each pair of          *)
(* consecutive platforms and none after the last, also for n = 0 or p = 0. *)
(***************************************************************************)
\* The device lines and device separators of platform p, in order.
DeviceMarks(p) ==
  SelectSeq(out, LAMBDA l : l.p = p /\ (l.e = "device" \/ l.k = "dsep"))

\* The platform and device lines and the platform separators, in order.
PlatformMarks ==
  SelectSeq(out, LAMBDA l : l.e \in {"platform", "device"} \/ l.k = "psep")

\* The devices of platform p that were enumerated: the count reported when
\* the list query succeeded, none otherwise.
Enumerated(p) ==
  IF \E i \in DOMAIN calls : /\ calls[i].q = "device_ids" /\ calls[i].p = p
                             /\ calls[i].a.st = CL_SUCCESS
  THEN SelectSeq(out, LAMBDA l : l.k = "devices" /\ l.p = p)[1].v[1]
  ELSE 0

Monus(n) == IF n > 0 THEN n - 1 ELSE 0

SeparatorsBetween ==
  (pc = "exited" /\ exit_status = 0) =>
    /\ LET m == PlatformMarks
       IN  /\ Len(SelectSeq(m, LAMBDA l : l.k = "psep")) = Monus(num_platforms)
           /\ \A j \in DOMAIN m :
                m[j].k = "psep" =>
                  /\ 1 < j /\ j < Len(m)
                  /\ m[j - 1].k # "psep" /\ m[j + 1].k # "psep"
                  /\ m[j + 1].p = m[j - 1].p + 1
    /\ \A p \in 0 .. num_platforms - 1 :
         LET m == DeviceMarks(p)
         IN  /\ Len(SelectSeq(m, LAMBDA l : l.k = "dsep")) = Monus(Enumerated(p))
             /\ \A j \in DOMAIN m :
                  m[j].k = "dsep" =>
                    /\ 1 < j /\ j < Len(m)
                    /\ m[j - 1].e = "device" /\ m[j + 1].e = "device"
                    /\ m[j + 1].d = m[j - 1].d + 1

\* Two platforms, the first with no device, the second with two.
SeparatorsWitness ==
  /\ pc = "exited"
  /\ exit_status = 0
  /\ num_platforms = 2
  /\ Enumerated(0) = 0
  /\ Enumerated(1) = 2
  /\ Len(SelectSeq(out, LAMBDA l : l.k = "dsep")) = 1
  /\ Len(SelectSeq(out, LAMBDA l : l.k = "psep")) = 1


\* The usage message of variant v, as usage() writes it.
UsageText(v) == [i \in DOMAIN UsageLines(v) |-> ErrUsage(UsageLines(v)[i])]

\* The arguments that make the option loop call usage() in the C++ programs.
AsksUsage == {"-h", "--help", "-x"}

\* The process ended in usage(): the message is on stderr, the status is 1,
\* nothing was written to stdout and no runtime call was made.
EndedInUsage(v, st, o, e, c, where) ==
  /\ where = "exited"
  /\ st = 1
  /\ o = <<>>
  /\ c = <<>>
  /\ SelectSeq(e, LAMBDA l : l.k = "usage") = UsageText(v)
  /\ \A i \in DOMAIN e : e[i].k \in {"usage", "getopt"}

(***************************************************************************)
(* C16 as stated: in the C++ program, if any argument is -h, --help or an  *)
(* option the program does not know, the option loop ends the process in   *)
(* usage() with status 1 before any runtime call.                          *)
(***************************************************************************)
UsageForAnyArgument ==
  [][(pc = "options" /\ variant = "cpp"
        /\ \E i \in DOMAIN args : args[i] \in AsksUsage)
       => EndedInUsage(variant, exit_status', out', err', calls', pc')]_vars

(***************************************************************************)
(* C16  In the C++ program, if an argument is -h, --help or an option the  *)
(* program does not know, and every argument before it is an option (no    *)
(* "--" and no operand precedes it), the option loop ends the process in   *)
(* usage() with status 1 before any runtime call; a -i before it does not  *)
(* change this.                                                            *)
(***************************************************************************)
UsageForScannedOption ==
  [][(pc = "options" /\ variant = "cpp"
        /\ \E i \in DOMAIN args :
             /\ args[i] \in AsksUsage
             /\ \A j \in 1 .. (i - 1) : args[j] \in {"-i", "--image-formats"} \cup AsksUsage)
       => EndedInUsage(variant, exit_status', out', err', calls', pc')]_vars

\* Reached: -i was scanned, then -h or --help ended the run in usage().
UsageAfterImageOption ==
  /\ variant = "cpp"
  /\ dump_image_formats
  /\ args # <<>>
  /\ Head(args) \in {"-h", "--help"}
  /\ EndedInUsage(variant, exit_status, out, err, calls, pc)


\* What a line of the report is, and what a diagnostic is.
ReportKinds == {"platforms", "prop", "devices", "label", "fmt", "dsep", "psep"}

DiagnosticKinds == {"fail", "trunc", "step", "usage", "getopt"}

\* The diagnostics on stream e about the call c that failed.
Reported(e, c) ==
  SelectSeq(e, LAMBDA l : /\ l.k \in {"fail", "step"}
                          /\ l.e = c.e /\ l.p = c.p /\ l.d = c.d
                          /\ l.text = cl_strerror(c.a.st))

(***************************************************************************)
(* C15  Every diagnostic (failed query, truncation warning, failed step of *)
(* the image-format listing, failed context release, usage message) is on  *)
(* stderr and none is on stdout: stdout holds report lines only, stderr    *)
(* diagnostics only, and every failed runtime call has its diagnostic on   *)
(* stderr.                                                                 *)
(***************************************************************************)
DiagnosticsOnStderr ==
  /\ \A i \in DOMAIN out : out[i].k \in ReportKinds
  /\ \A i \in DOMAIN err : err[i].k \in DiagnosticKinds
  /\ \A i \in DOMAIN calls :
       calls[i].a.st # CL_SUCCESS => Reported(err, calls[i]) # <<>>

\* Reached: a run that printed image formats, then failed to release the
\* context and said so on stderr.
ReleaseFailureOnStderr ==
  /\ pc = "exited"
  /\ \E j \in DOMAIN err : err[j].k = "step" /\ err[j].name = "release context"
  /\ \E j \in DOMAIN out : out[j].k = "fmt"


\* The steps of print_image_formats before the formats are printed, by the
\* name the call log gives them, with the words of their diagnostics.
StepWords ==
  [clCreateContext   |-> "create context",
   num_image_formats |-> "get number of supported image formats",
   image_formats     |-> "get supported image formats"]

\* The lines of device d of platform p about its image formats, on stream e.
StepLines(e, p, d) ==
  SelectSeq(e, LAMBDA l : l.k \in {"step", "fmt"} /\ l.e = "device" /\ l.p = p /\ l.d = d)

\* Every platform and every enumerated device has its lines on stdout.
WholeReport ==
  \A p \in 0 .. (num_platforms - 1) :
    /\ \E j \in DOMAIN out : out[j].e = "platform" /\ out[j].p = p
    /\ \A d \in 0 .. (Enumerated(p) - 1) :
         Len(PropertyLines(p, d)) = Len(DeviceOrder(variant))

(***************************************************************************)
(* C17  When context creation, the count query or the list query of        *)
(* print_image_formats fails for device d: exactly one diagnostic is       *)
(* written, naming device d and the failed step with the translated        *)
(* status; no image format is printed for d; no later step is attempted    *)
(* (the failed call is the last call for d); and when this is the only     *)
(* runtime answer out of the ordinary, the report covers every platform    *)
(* and device and the process ends with status 0.                          *)
(***************************************************************************)
ImageFormatFailureIsLocal ==
  \A i \in DOMAIN calls :
    (calls[i].q \in DOMAIN StepWords /\ calls[i].a.st # CL_SUCCESS) =>
      /\ StepLines(err, calls[i].p, calls[i].d)
           = <<ErrStep(Entity(calls[i]), StepWords[calls[i].q], calls[i].a.st)>>
      /\ StepLines(out, calls[i].p, calls[i].d) = <<>>
      /\ \A j \in (i + 1) .. Len(calls) :
           ~(calls[j].e = "device" /\ calls[j].p = calls[i].p /\ calls[j].d = calls[i].d)
      /\ (pc = "exited" /\ \A j \in DOMAIN calls : j # i => calls[j].a = Ok) =>
           /\ exit_status = 0
           /\ WholeReport

\* Reached: the list query failed for device 0 of platform 0, a later
\* platform with two devices was reported and the run ended with status 0.
ImageFormatFailureWitness ==
  /\ pc = "exited"
  /\ exit_status = 0
  /\ num_platforms = 2
  /\ Enumerated(1) = 2
  /\ \E i \in DOMAIN calls :
       /\ calls[i].q = "image_formats" /\ calls[i].a.st # CL_SUCCESS
       /\ calls[i].p = 0 /\ calls[i].d = 0
  /\ Len(PropertyLines(1, 1)) = Len(DeviceOrder(variant))


\* Bit b (a power of two below 2^16) of the 64-bit value v.
BitSet(v, b) == (v[1] \div b) % 2 = 1

\* The names of the flags of a table that are set in v, in table order.
NamesSet(v, flags) ==
  LET set == SelectSeq(flags, LAMBDA f : BitSet(v, f.bit))
  IN  [i \in DOMAIN set |-> set[i].name]

RECURSIVE SumBits(_, _, _)
SumBits(v, flags, i) ==
  IF i > Len(flags) THEN 0
  ELSE (IF BitSet(v, flags[i].bit) THEN flags[i].bit ELSE 0) + SumBits(v, flags, i + 1)

\* v with the bits of the table cleared.
Residual(v, flags) == [v EXCEPT ![1] = @ - SumBits(v, flags, 1)]

(***************************************************************************)
(* C18  For every 64-bit value v of TYPE, the names printed are exactly    *)
(* the known flags set in v, each once, in the order Default, CPU, GPU,    *)
(* Accelerator, and "Unknown (0x r)" is printed if and only if r, v with   *)
(* the four known bits cleared, is not 0, and shows r; the same for        *)
(* EXECUTION_CAPABILITIES with Kernel, Native.                             *)
(***************************************************************************)
FlagsAccounted ==
  pc = "returned" =>
    /\ fn_out.names = NamesSet(fn_in.val, FlagTables[fn_in.name])
    /\ fn_out.unknown = IF Residual(fn_in.val, FlagTables[fn_in.name]) # U64Zero
                        THEN <<Residual(fn_in.val, FlagTables[fn_in.name])>>
                        ELSE <<>>

\* Reached: TYPE with CPU, GPU, bit 4 and bit 63 set is printed as
\* "CPU GPU Unknown (0x8000000000000010)".
FlagsWitness ==
  /\ pc = "returned"
  /\ fn_in = [name |-> "TYPE", val |-> U64(2 + 4 + 16, 0, 0, 32768)]
  /\ fn_out.names = <<"CPU", "GPU">>
  /\ fn_out.unknown = <<U64(16, 0, 0, 32768)>>


\* v is one of 0, 1, 2.
InTable(v) == v \in {U64(0, 0, 0, 0), U64(1, 0, 0, 0), U64(2, 0, 0, 0)}

\* The table is read at an index below 3 only, an index in range prints its
\* entry, any other value prints "???".
IndexReadInBounds ==
  pc = "returned" =>
    /\ \A i \in DOMAIN fn_out.read : fn_out.read[i] < 3
    /\ InTable(fn_in.val) =>
         /\ fn_out.read = <<fn_in.val[1]>>
         /\ fn_out.sym = IndexTables[fn_in.name][fn_in.val[1] + 1]
    /\ ~InTable(fn_in.val) => (fn_out.read = <<>> /\ fn_out.sym = "???")

(***************************************************************************)
(* C19  For every value of val after a successful GLOBAL_MEM_CACHE_TYPE or *)
(* LOCAL_MEM_TYPE query, the table of three names is read only at an index *)
(* below 3; an index in range prints its entry, any other value "???"; and *)
(* the number in the parentheses is the value of val.                      *)
(***************************************************************************)
IndexShown ==
  /\ IndexReadInBounds
  /\ pc = "returned" => fn_out.num = [neg |-> FALSE, mag |-> fn_in.val]

\* Reached: GLOBAL_MEM_CACHE_TYPE with val = 0xFFFF000000000001 is printed
\* as "??? (-281474976710655)".
IndexShownNegative ==
  /\ pc = "returned"
  /\ fn_in = [name |-> "GLOBAL_MEM_CACHE_TYPE", val |-> U64(1, 0, 0, 65535)]
  /\ fn_out.sym = "???"
  /\ fn_out.read = <<>>
  /\ fn_out.num = [neg |-> TRUE, mag |-> U64(65535, 65535, 65535, 0)]


\* The calls of clCreateContext for device d of platform p: print_image_formats
\* makes one, first thing, every time it is invoked.
Invocations(p, d) ==
  SelectSeq(calls, LAMBDA c : c.fn = "clCreateContext" /\ c.p = p /\ c.d = d)

\* Call i is an invocation of print_image_formats that comes after every
\* property query and every property line of its device.
AfterProperties(i) ==
  /\ Len(SelectSeq(SubSeq(calls, 1, i - 1),
                   LAMBDA c : c.fn = "clGetDeviceInfo" /\ c.p = calls[i].p /\ c.d = calls[i].d))
       = Len(DeviceOrder(variant))
  /\ \A j \in (i + 1) .. Len(calls) :
       ~(calls[j].fn = "clGetDeviceInfo" /\ calls[j].p = calls[i].p /\ calls[j].d = calls[i].d)

\* print_image_formats was invoked once for every enumerated device, after
\* its properties, when dump_image_formats is set, and never when it is not.
OncePerDevice ==
  /\ \A i \in DOMAIN calls :
       calls[i].fn = "clCreateContext" => (dump_image_formats /\ AfterProperties(i))
  /\ \A p \in 0 .. (num_platforms - 1) :
       \A d \in 0 .. (Enumerated(p) - 1) :
         Len(Invocations(p, d)) = (IF dump_image_formats THEN 1 ELSE 0)

(***************************************************************************)
(* C20  In the C++ program, when the process has ended, print_image_formats *)
(* was invoked exactly once for every enumerated device, after all the     *)
(* properties of that device, if -i or --image-formats was given, and was  *)
(* never invoked (no context was created) if it was not.                   *)
(***************************************************************************)
ImageFormatsOncePerDevice ==
  (variant = "cpp" /\ pc = "exited" /\ calls # <<>>) => OncePerDevice

\* Reached: -i was given, two devices were enumerated, the process was
\* killed while printing the first and print_image_formats never ran.
ImageFormatsNeverReached ==
  /\ variant = "cpp"
  /\ pc = "exited"
  /\ exit_status = Killed
  /\ dump_image_formats
  /\ Enumerated(0) = 2
  /\ \A i \in DOMAIN calls : calls[i].fn # "clCreateContext"


\* The place of a name in a table.
IndexIn(table, x) == CHOOSE i \in DOMAIN table : table[i] = x

\* The rank of a line inside its platform: the properties of the platform,
\* the device-count header, then the devices with their separators.
Rank(l) ==
  IF l.k = "dsep" \/ l.e = "device" THEN 2
  ELSE IF l.k = "devices" THEN 1
  ELSE 0

\* The place of a line inside its device: the properties in the order of
\* the program, the image-format label, the image formats.
Step(v, l) ==
  IF l.k = "prop" THEN IndexIn(DeviceOrder(v), l.name)
  ELSE IF l.k = "label" THEN Len(DeviceOrder(v)) + 1
  ELSE Len(DeviceOrder(v)) + 2

\* Line b may directly follow line a among the lines of platforms and
\* devices (the separators of devices among them).
PlatformLineFollows(v, a, b) ==
  /\ a.p <= b.p
  /\ a.p = b.p =>
       /\ Rank(a) <= Rank(b)
       /\ ~(a.k = "devices" /\ b.k = "devices")
       /\ (Rank(a) = 0 /\ Rank(b) = 0) =>
            IndexIn(props(v), a.name) < IndexIn(props(v), b.name)

\* Line b may directly follow line a among the lines of devices.
DeviceLineFollows(v, a, b) ==
  /\ a.p <= b.p
  /\ a.p < b.p => b.d = 0
  /\ a.p = b.p => (a.d <= b.d /\ b.d <= a.d + 1)
  /\ (a.p = b.p /\ a.d = b.d) =>
       /\ Step(v, a) <= Step(v, b)
       /\ b.k \in {"prop", "label"} => Step(v, a) < Step(v, b)

(***************************************************************************)
(* C21  In every pass the output is hierarchical and in enumeration order: *)
(* the lines of platform i precede those of platform i+1; in a platform    *)
(* the platform properties come first, in table order, then the            *)
(* device-count header, then the devices 0, 1, ... in order; the lines of  *)
(* a device are contiguous (no separator stands inside them), and its      *)
(* properties are in the declared order, the same for every device,        *)
(* followed by its image formats.                                          *)
(***************************************************************************)
HierarchicalOrder ==
  LET el == SelectSeq(out, LAMBDA l : l.e \in {"platform", "device"})
      dl == SelectSeq(out, LAMBDA l : l.e = "device")
  IN  /\ \A i \in 1 .. (Len(el) - 1) : PlatformLineFollows(variant, el[i], el[i + 1])
      /\ \A i \in 1 .. (Len(dl) - 1) : DeviceLineFollows(variant, dl[i], dl[i + 1])
      /\ dl # <<>> => dl[1].d = 0
      /\ \A i \in 2 .. (Len(out) - 1) :
           out[i].k \in {"dsep", "psep"} =>
             /\ out[i - 1].k \notin {"dsep", "psep"}
             /\ out[i + 1].k \notin {"dsep", "psep"}
             /\ Entity(out[i - 1]) # Entity(out[i + 1])

\* Reached: a whole report of two platforms of two devices with image
\* formats.
HierarchicalWitness ==
  /\ pc = "exited"
  /\ exit_status = 0
  /\ dump_image_formats
  /\ num_platforms = 2
  /\ \A p \in {0, 1} :
       \A d \in {0, 1} :
         /\ Len(PropertyLines(p, d)) = Len(DeviceOrder(variant))
         /\ \E j \in DOMAIN out : out[j].k = "fmt" /\ out[j].p = p /\ out[j].d = d


\* The clGetPlatformInfo calls for platform p, in order.
PlatformCalls(p) ==
  SelectSeq(calls, LAMBDA c : c.fn = "clGetPlatformInfo" /\ c.e = "platform" /\ c.p = p)

\* The names queried are the first entries of the table, each once.
StartOf(cs, table) ==
  /\ Len(cs) <= Len(table)
  /\ QueryNames(cs) = SubSeq(table, 1, Len(cs))

PlatformOrder(v) == SubSeq(props(v), 1, Len(props(v)) - 1)

(***************************************************************************)
(* C22  No runtime query is retried: for every platform and every device   *)
(* the property queries issued are the first entries of the declared       *)
(* order, each once, whether they failed or not; and when the pass ends    *)
(* with status 0 every property of every platform and of every enumerated  *)
(* device has been queried exactly once.                                   *)
(***************************************************************************)
NoQueryRetried ==
  /\ \A p \in 0 .. (MaxPlatforms - 1) :
       /\ StartOf(PlatformCalls(p), PlatformOrder(variant))
       /\ \A d \in 0 .. (MaxDevices - 1) :
            StartOf(PropertyCalls(p, d), DeviceOrder(variant))
  /\ (pc = "exited" /\ exit_status = 0) =>
       \A p \in 0 .. (num_platforms - 1) :
         /\ Len(PlatformCalls(p)) = Len(PlatformOrder(variant))
         /\ \A d \in 0 .. (Enumerated(p) - 1) :
              Len(PropertyCalls(p, d)) = Len(DeviceOrder(variant))

\* Reached: a property query of device 0 failed, a second device followed
\* and the pass ended with status 0.
NoQueryRetriedWitness ==
  /\ pc = "exited"
  /\ exit_status = 0
  /\ Enumerated(0) = 2
  /\ \E i \in DOMAIN calls :
       /\ calls[i].fn = "clGetDeviceInfo" /\ calls[i].a.st # CL_SUCCESS
       /\ calls[i].p = 0 /\ calls[i].d = 0
  /\ Len(PropertyCalls(0, 1)) = Len(DeviceOrder(variant))


(***************************************************************************)
(* C23  When print_image_formats has returned, the array of image formats  *)
(* it allocated has been freed, on every return path that follows the      *)
(* allocation, the return after a failed list query included.              *)
(***************************************************************************)
FormatBufferFreed == pc = "device_done" => buffers = {}

\* Reached: the list query failed and print_image_formats returned with
\* the array still allocated.
FormatBufferLeaked ==
  /\ pc = "device_done"
  /\ buffers # {}
  /\ calls[Len(calls)].q = "image_formats"
  /\ calls[Len(calls)].a.st # CL_SUCCESS


\* The diagnostics of platform p about the enumeration of its devices.
EnumerationDiagnostics(p) ==
  SelectSeq(err, LAMBDA l : /\ l.e = "platform" /\ l.p = p
                            /\ l.name \in {"query the number of devices",
                                            "enumerate the devices"})

\* The words of the diagnostic of a clGetDeviceIDs call.
EnumerationWords(c) ==
  IF c.q = "num_devices" THEN "query the number of devices" ELSE "enumerate the devices"

\* A platform separator stands between the lines of platform p and those of
\* platform p + 1.
SeparatorAfter(p) ==
  \E k \in 2 .. (Len(out) - 1) :
    out[k].k = "psep" /\ out[k - 1].p = p /\ out[k + 1].p = p + 1

(***************************************************************************)
(* C24  In the C program, when the device-count or the device-list query   *)
(* fails for platform i: one diagnostic naming platform i and the          *)
(* translated status is written, no device of platform i is printed, no    *)
(* further call is made for platform i, and, this being the only answer    *)
(* out of the ordinary, main prints the separator and every later platform *)
(* and the process ends with status 0.                                     *)
(***************************************************************************)
CEnumerationFailureIsLocal ==
  variant = "c" =>
    \A i \in DOMAIN calls :
      (calls[i].fn = "clGetDeviceIDs" /\ calls[i].a.st # CL_SUCCESS) =>
        /\ EnumerationDiagnostics(calls[i].p)
             = <<ErrFail(Platform(calls[i].p), EnumerationWords(calls[i]), calls[i].a.st)>>
        /\ \A j \in DOMAIN out : ~(out[j].e = "device" /\ out[j].p = calls[i].p)
        /\ \A j \in (i + 1) .. Len(calls) : calls[j].p # calls[i].p
        /\ (pc = "exited" /\ \A j \in DOMAIN calls : j # i => calls[j].a = Ok) =>
             /\ exit_status = 0
             /\ calls[i].p + 1 < num_platforms => SeparatorAfter(calls[i].p)
             /\ \A q \in (calls[i].p + 1) .. (num_platforms - 1) :
                  /\ Len(PlatformCalls(q)) = Len(PlatformOrder(variant))
                  /\ \A d \in 0 .. (Enumerated(q) - 1) :
                       Len(PropertyLines(q, d)) = Len(DeviceOrder(variant))

\* Reached: the device-list query of platform 0 failed, platform 1 and its
\* two devices were printed and the process ended with status 0.
CEnumerationFailureWitness ==
  /\ variant = "c"
  /\ pc = "exited"
  /\ exit_status = 0
  /\ num_platforms = 2
  /\ \E i \in DOMAIN calls :
       calls[i].q = "device_ids" /\ calls[i].p = 0 /\ calls[i].a.st # CL_SUCCESS
  /\ SeparatorAfter(0)
  /\ Enumerated(1) = 2
  /\ Len(PropertyLines(1, 1)) = Len(DeviceOrder(variant))


\* The tokens of a text (maximal runs without whitespace) in source order.
SourceTokens(text) ==
  LET spans == TokenSpans(text)
      nth(i) == CHOOSE sp \in spans : Cardinality({q \in spans : q[1] < sp[1]}) = i - 1
  IN  [i \in 1 .. Cardinality(spans) |-> SubSeq(text, nth(i)[1], nth(i)[2])]

(***************************************************************************)
(* C25  In the C program the extensions string is split on runs of         *)
(* whitespace (spaces, tabs and newlines alike) and the tokens are printed *)
(* in source order, one per line, none lost, merged or reordered.          *)
(***************************************************************************)
StrtokSplitsOnWhitespace ==
  (pc = "returned" /\ TokenSpans(fn_in.text) # {}) =>
    /\ fn_out.halt = "no"
    /\ Len(fn_out.out) = 1
    /\ [i \in DOMAIN fn_out.out[1].v |-> fn_out.out[1].v[i].word] = SourceTokens(fn_in.text)

\* Reached: "a<TAB>b" is printed as the single token "a<TAB>b".
StrtokKeepsTab ==
  /\ pc = "returned"
  /\ fn_in.text = <<"a", "\t", "b">>
  /\ Len(fn_out.out) = 1
  /\ Len(fn_out.out[1].v) = 1
  /\ fn_out.out[1].v[1].word = <<"a", "\t", "b">>


\* The text of a channel order or data type: its symbol when a case label
\* names it, the tag UKNOWN and the value otherwise.
SymbolOrFallback(x, known) == IF x \in known THEN <<x>> ELSE <<"UKNOWN", x>>

(***************************************************************************)
(* C26  When the runtime lists n formats, print_image_formats prints       *)
(* exactly n entries in the runtime's order, each the text of the channel  *)
(* order followed by the text of the channel data type; the first text     *)
(* depends on the order alone and the second on the data type alone; a     *)
(* value no case label names is printed as UKNOWN with its value.          *)
(***************************************************************************)
FormatsAllPrinted ==
  pc = "returned" =>
    /\ Len(fn_out) = Len(fn_in)
    /\ \A i \in DOMAIN fn_out :
         /\ fn_out[i].k = "fmt"
         /\ fn_out[i].v.order = SymbolOrFallback(fn_in[i].order, ChannelOrders)
         /\ fn_out[i].v.type = SymbolOrFallback(fn_in[i].type, ChannelTypes)
         /\ \A j \in DOMAIN fn_out :
              /\ fn_in[i].order = fn_in[j].order => fn_out[i].v.order = fn_out[j].v.order
              /\ fn_in[i].type = fn_in[j].type => fn_out[i].v.type = fn_out[j].v.type

\* Reached: three formats, the second with an order and the third with a
\* data type that no case label names.
FormatsWitness ==
  /\ pc = "returned"
  /\ fn_in = <<[order |-> "CL_RGBA", type |-> "CL_FLOAT"],
               [order |-> "0x10FF", type |-> "CL_FLOAT"],
               [order |-> "CL_R", type |-> "0x10FF"]>>
  /\ Len(fn_out) = 3
  /\ fn_out[2].v.order = <<"UKNOWN", "0x10FF">>
  /\ fn_out[3].v.type = <<"UKNOWN", "0x10FF">>



\* The word lists printed for an extensions property.
WordLists == SelectSeq(out, LAMBDA l : l.k = "prop" /\ l.name \in {"EXTENSIONS", "extensions"})

\* The label written before the image formats.
FormatLabels == SelectSeq(out, LAMBDA l : l.k = "label")

\* Every value of the entity starts at one column; each channel-order text
\* begins with one blank, so the first format starts one column after the
\* column that follows the label.
ValuesAligned ==
  LET vals == SelectSeq(out, LAMBDA l : l.k = "prop")
  IN  /\ \A i \in DOMAIN vals : ValueColumn(vals[i]) = ValueColumn(vals[1])
      /\ \A i \in DOMAIN FormatLabels :
           vals # <<>> => ValueColumn(FormatLabels[i]) + 1 = ValueColumn(vals[1])

\* Each extension word after the first starts where the first started, and
\* each format after the first where the first started.
ContinuationsAligned ==
  /\ \A i \in DOMAIN WordLists :
       \A w \in DOMAIN WordLists[i].v :
         w > 1 => WordLists[i].v[w].indent = ValueColumn(WordLists[i])
  /\ \A i \in DOMAIN out :
       (out[i].k = "fmt" /\ out[i].v.indent > 0) =>
         out[i].v.indent = ValueColumn(FormatLabels[1])

NamesFit ==
  \A i \in DOMAIN out :
    /\ (out[i].e = "device" /\ out[i].k \in {"prop", "label"}) => Len(out[i].name) <= 30
    /\ (out[i].e = "platform" /\ out[i].k = "prop") => Len(out[i].name) <= 10

(***************************************************************************)
(* C27  For every device and platform index, of two or more digits too,    *)
(* every property value of one entity starts at the same column, every     *)
(* continuation line (a later image format, a later extension word) starts *)
(* at the column where the first entry of its property started, and every  *)
(* display name fits its column (30 for devices, 10 for platforms).        *)
(***************************************************************************)
ColumnsAligned ==
  pc = "returned" => (ValuesAligned /\ ContinuationsAligned /\ NamesFit)

\* Reached: device 10, whose first extension word starts at column 44 and
\* whose second is written after 43 blanks.
ColumnsWitness ==
  /\ pc = "returned"
  /\ fn_in = Device(0, 10)
  /\ WordLists # <<>>
  /\ Len(WordLists[1].v) > 1
  /\ ValueColumn(WordLists[1]) = 44
  /\ WordLists[1].v[2].indent = 43

\* What does hold: values and names at every index, continuation lines at
\* the indices of one digit.
ColumnsAlignedOneDigit ==
  pc = "returned" =>
    /\ ValuesAligned
    /\ NamesFit
    /\ (fn_in.p < 10 /\ fn_in.d < 10) => ContinuationsAligned


\* Every step of the program changes pc, and pc stays a program point.
EveryStepMoves == [][pc' # pc /\ pc' \in ProgramPoints]_vars

(***************************************************************************)
(* C28  With a runtime that reports finitely many platforms and devices    *)
(* and whose calls all return, every execution reaches process exit: the   *)
(* walks over the property tables, the loop over the devices and the loop  *)
(* over the platforms end, whatever successes and failures the runtime     *)
(* returns.                                                                *)
(***************************************************************************)
ReachesExit == <>(pc = "exited")

\* Reached: both loops run to their bound, with a failed query on the way,
\* and the process has exited.
ReachesExitWitness ==
  /\ pc = "exited"
  /\ exit_status = 0
  /\ num_platforms = MaxPlatforms
  /\ pi = num_platforms
  /\ num_devices = MaxDevices
  /\ di = num_devices
  /\ \E i \in DOMAIN err : err[i].k = "fail"


(***************************************************************************)
(* C29  Whenever the image-format enumeration for a device ends (after     *)
(* n >= 1 formats, with zero formats, or with a failed step), stdout is at *)
(* the start of a line: the "IMAGE FORMATS" label is always ended by a     *)
(* newline, so what follows never continues the label's line.              *)
(***************************************************************************)
LabelLineEnded ==
  (pc = "device_done" /\ dump_image_formats) => EndsLine(out[Len(out)])

\* Reached: the runtime reported zero formats, all steps succeeded, and the
\* label is the last thing on stdout, its line open.
LabelLineOpen ==
  /\ pc = "device_done"
  /\ out[Len(out)] = OutLine("label", Device(pi, di), "IMAGE FORMATS", <<>>)
  /\ \E i \in DOMAIN calls : calls[i].q = "num_image_formats" /\ calls[i].a = NoFormat
  /\ err = <<>>

\* What does hold: after at least one printed format stdout is at the start
\* of a line.
LabelLineEndedByFormat ==
  (pc = "device_done" /\ dump_image_formats
     /\ \E i \in DOMAIN out : out[i].k = "fmt" /\ out[i].p = pi /\ out[i].d = di)
    => EndsLine(out[Len(out)])


\* The C program was started with a long option its table does not hold,
\* and the process is gone.
UnknownLongOptionScanned ==
  /\ variant = "c"
  /\ pc = "exited"
  /\ calls = <<>>
  /\ args # <<>>
  /\ Head(args) = "--image-formats"

(***************************************************************************)
(* C30  The long-option table parse_options of the C program hands to      *)
(* getopt_long ends with an all-zero entry, so that the scan for a long    *)
(* option no entry matches stops inside the array and the option is        *)
(* unrecognized: usage, exit 1.                                            *)
(***************************************************************************)
UnknownLongOptionIsUsage ==
  UnknownLongOptionScanned =>
    /\ TableTerminated(variant)
    /\ exit_status = 1
    /\ \E i \in DOMAIN err : err[i].k = "usage"

\* Reached: the scan ran off the end of the table and the process was
\* killed, with no usage text.
UnknownLongOptionCrash ==
  /\ UnknownLongOptionScanned
  /\ ~TableTerminated(variant)
  /\ exit_status = Killed
  /\ \A i \in DOMAIN err : err[i].k # "usage"

\* With the terminated table of the C++ programs an unknown option always
\* ends in usage and exit 1.
TerminatedTableIsUsage ==
  (variant = "cpp" /\ pc = "exited" /\ calls = <<>> /\ args # <<>> /\ Head(args) = "-x") =>
    /\ exit_status = 1
    /\ \E i \in DOMAIN err : err[i].k = "usage"

====
